---- MODULE Spec2Model ----
(***************************************************************************)
(* The HTML to AsciiDoc pipeline of the camel-website build:               *)
(*   gulp/helpers/html-to-asciidoc.js   HtmlToAsciiDocConverter            *)
(*   gulp/tasks/generate-asciidoc.js    generateAsciiDoc (the driver)      *)
(*                                                                         *)
(* A JavaScript string is a sequence of one-character strings.  A DOM node *)
(* is a record as node-html-parser hands it to the converter: nodeType 3   *)
(* (text) or 1 (element), the lower-cased tag name ("" for the parse root, *)
(* whose tagName is null), the raw text of a text node, the attributes the *)
(* code reads, decoded as getAttribute hands them out (an absent attribute *)
(* and an empty one are both the empty string: every read in the code is   *)
(* getAttribute(..) || '' or a truthiness test), and the child nodes in    *)
(* document order.  The value of the class attribute is kept as its        *)
(* sequence of whitespace-separated tokens.                                *)
(***************************************************************************)
EXTENDS Integers, Sequences, FiniteSets, TLC

(***************************************************************************)
(* Strings                                                                 *)
(***************************************************************************)
NL == "\n"

\* the backquote character, which a TLA+ string literal cannot hold
Backquote == "BACKQUOTE"

\* A character is a one-character string: itself when it is printable ASCII
\* (Backquote for the backquote), "\t", "\n", "\f" and "\r" for these four,
\* and for any other one the string U+ followed by its code point in four or
\* more upper-case hexadecimal digits: "U+00A0" is the no-break space.  A
\* character outside the Basic Multilingual Plane is one character here, where
\* JavaScript holds two surrogates

\* the WhiteSpace and LineTerminator code points of ECMAScript, which
\* String.prototype.trim strips
IsSpace(c) ==
  c \in {"\t", "\n", "U+000B", "\f", "\r", " ", "U+00A0", "U+1680",
         "U+2000", "U+2001", "U+2002", "U+2003", "U+2004", "U+2005", "U+2006",
         "U+2007", "U+2008", "U+2009", "U+200A", "U+2028", "U+2029", "U+202F",
         "U+205F", "U+3000", "U+FEFF"}

\* the positions of s that hold something other than white space
inked(s) == {k \in 1..Len(s) : ~IsSpace(s[k])}

trimStart(s) ==
  IF inked(s) = {} THEN <<>>
  ELSE SubSeq(s, CHOOSE k \in inked(s) : \A m \in inked(s) : k <= m, Len(s))

trimEnd(s) ==
  IF inked(s) = {} THEN <<>>
  ELSE SubSeq(s, 1, CHOOSE k \in inked(s) : \A m \in inked(s) : k >= m)

\* String.prototype.trim
trim(s) == trimEnd(trimStart(s))

\* String.prototype.split on a one-character separator: "" splits to [""]
RECURSIVE split(_, _)
split(s, c) ==
  IF \A k \in 1..Len(s) : s[k] # c
    THEN <<s>>
    ELSE LET k == CHOOSE k \in 1..Len(s) : s[k] = c /\ \A m \in 1..(k - 1) : s[m] # c
         IN  <<SubSeq(s, 1, k - 1)>> \o split(SubSeq(s, k + 1, Len(s)), c)

\* Array.prototype.join
RECURSIVE join(_, _)
join(parts, sep) ==
  IF parts = <<>> THEN <<>>
  ELSE IF Len(parts) = 1 THEN parts[1]
  ELSE parts[1] \o sep \o join(Tail(parts), sep)

\* String.prototype.repeat
RECURSIVE repeat(_, _)
repeat(s, n) == IF n <= 0 THEN <<>> ELSE s \o repeat(s, n - 1)

\* String.prototype.startsWith
startsWith(s, p) == Len(s) >= Len(p) /\ SubSeq(s, 1, Len(p)) = p

\* the least element of a non-empty set of positions
first(ps) == CHOOSE k \in ps : \A m \in ps : k <= m

\* where from occurs in s
occurrences(s, from) ==
  {k \in 1..(Len(s) - Len(from) + 1) : SubSeq(s, k, k + Len(from) - 1) = from}

\* s.replace(/<literal>/g, to): every occurrence, leftmost first, not overlapping
RECURSIVE replaceAll(_, _, _)
replaceAll(s, from, to) ==
  IF occurrences(s, from) = {} THEN s
  ELSE LET k == first(occurrences(s, from))
       IN  SubSeq(s, 1, k - 1) \o to
           \o replaceAll(SubSeq(s, k + Len(from), Len(s)), from, to)

\* the length of the run of newlines that starts at position k of s
newlineRun(s, k) ==
  Cardinality({n \in k..Len(s) : \A m \in k..n : s[m] = NL})

\* where a run of at least n newlines starts in s
newlineRunsFrom(s, n) ==
  {k \in 1..Len(s) : (k = 1 \/ s[k - 1] # NL) /\ newlineRun(s, k) >= n}

\* the same replace with the quantifier {4,}
RECURSIVE collapseNewlinesFrom4(_)
collapseNewlinesFrom4(s) ==
  IF newlineRunsFrom(s, 4) = {} THEN s
  ELSE LET k == first(newlineRunsFrom(s, 4))
       IN  SubSeq(s, 1, k - 1) \o <<NL, NL>>
           \o collapseNewlinesFrom4(SubSeq(s, k + newlineRun(s, k), Len(s)))

\* s.replace(/\n{3,}/g, '\n\n'): the quantifier is greedy, so each match is a
\* maximal run of three or more newlines, leftmost first
RECURSIVE collapseNewlines(_)
collapseNewlines(s) ==
  IF newlineRunsFrom(s, 3) = {} THEN s
  ELSE LET k == first(newlineRunsFrom(s, 3))
       IN  SubSeq(s, 1, k - 1) \o <<NL, NL>>
           \o collapseNewlines(SubSeq(s, k + newlineRun(s, k), Len(s)))

LowerCase == <<"a","b","c","d","e","f","g","h","i","j","k","l","m",
               "n","o","p","q","r","s","t","u","v","w","x","y","z">>
UpperCase == <<"A","B","C","D","E","F","G","H","I","J","K","L","M",
               "N","O","P","Q","R","S","T","U","V","W","X","Y","Z">>
Digits == <<"0","1","2","3","4","5","6","7","8","9">>

\* the printable ASCII characters, from code point 32 to 126
Ascii == <<
  " ", "!", "\"", "#", "$", "%", "&", "'", "(", ")", "*", "+", ",", "-", ".", "/", "0", "1", "2",
  "3", "4", "5", "6", "7", "8", "9", ":", ";", "<", "=", ">", "?", "@", "A", "B", "C", "D", "E",
  "F", "G", "H", "I", "J", "K", "L", "M", "N", "O", "P", "Q", "R", "S", "T", "U", "V", "W", "X",
  "Y", "Z", "[", "\\", "]", "^", "_", Backquote, "a", "b", "c", "d", "e", "f", "g", "h", "i", "j",
  "k", "l", "m", "n", "o", "p", "q", "r", "s", "t", "u", "v", "w", "x", "y", "z", "{", "|", "}", "~" >>

HexDigits == <<"0","1","2","3","4","5","6","7","8","9","A","B","C","D","E","F">>
HexDigitsLower == <<"0","1","2","3","4","5","6","7","8","9","a","b","c","d","e","f">>

\* the characters of s as one string, and the characters of a string
RECURSIVE str(_)
str(s) == IF s = <<>> THEN "" ELSE s[1] \o str(Tail(s))

chars(name) == [k \in 1..Len(name) |-> SubSeq(name, k, k)]

\* n in upper-case hexadecimal digits, w of them at least
RECURSIVE hex(_, _)
hex(n, w) ==
  IF n = 0 /\ w <= 0 THEN ""
  ELSE hex(n \div 16, w - 1) \o HexDigits[(n % 16) + 1]

\* String.fromCharCode: the character of a code point
fromCharCode(n) ==
  IF n \in 32..126 THEN Ascii[n - 31]
  ELSE IF n = 9 THEN "\t"
  ELSE IF n = 10 THEN NL
  ELSE IF n = 12 THEN "\f"
  ELSE IF n = 13 THEN "\r"
  ELSE "U+" \o hex(n, 4)

\* parseInt(digits, radix); every value above 0x10FFFF stands for 0x110000,
\* no use of it makes a difference between them
RECURSIVE parseIntFrom(_, _, _)
parseIntFrom(digits, radix, n) ==
  IF digits = <<>> THEN n
  ELSE LET d == CHOOSE v \in 0..15 : Head(digits) \in {HexDigits[v + 1], HexDigitsLower[v + 1]}
           m == n * radix + d
       IN  parseIntFrom(Tail(digits), radix, IF m > 1114111 THEN 1114112 ELSE m)

parseInt(digits, radix) == parseIntFrom(digits, radix, 0)

\* A table is written as one string of entries: a space, the key, =, and the
\* code points of the characters the key stands for, five hexadecimal digits
\* each; a space ends it.  lookup is what the table holds for a key, <<>>
\* without an entry for it
lookup(table, key) ==
  LET entry == " " \o key \o "="
      at == {k \in 1..(Len(table) - Len(entry)) : SubSeq(table, k, k + Len(entry) - 1) = entry}
      from == first(at) + Len(entry)
      n == first({m \in 1..((Len(table) - from) \div 5) :
                    SubSeq(table, from + 5 * m, from + 5 * m) = " "})
  IN  IF at = {} THEN <<>>
      ELSE [m \in 1..n |->
              fromCharCode(parseInt(chars(SubSeq(table, from + 5 * m - 5, from + 5 * m - 1)), 16))]

\* a character beyond ASCII, and its code point as it stands in its name
beyondAscii(c) == Len(c) >= 6 /\ SubSeq(c, 1, 2) = "U+"

codePointOf(c) == SubSeq(c, 3, Len(c))

\* toUpperCase of the characters beyond ASCII that it changes: the full case
\* mapping of Unicode 17.0 (UnicodeData and the unconditional rules of
\* SpecialCasing), which may put several characters for one; a table for
\* each row of code points, the row being the digits before the last two.
\* The mapping is the engine's: one built on older Unicode data leaves the
\* letters that were added since as they are
UpperCaseMapping(row) ==
  CASE row = "00" ->
         " 00B5=0039C 00DF=0005300053 00E0=000C0 00E1=000C1 00E2=000C2 00E3=000C3 00E4=000C4 00E5=000C5"
         \o " 00E6=000C6 00E7=000C7 00E8=000C8 00E9=000C9 00EA=000CA 00EB=000CB 00EC=000CC 00ED=000CD"
         \o " 00EE=000CE 00EF=000CF 00F0=000D0 00F1=000D1 00F2=000D2 00F3=000D3 00F4=000D4 00F5=000D5"
         \o " 00F6=000D6 00F8=000D8 00F9=000D9 00FA=000DA 00FB=000DB 00FC=000DC 00FD=000DD 00FE=000DE"
         \o " 00FF=00178 "
    [] row = "01" ->
         " 0101=00100 0103=00102 0105=00104 0107=00106 0109=00108 010B=0010A 010D=0010C 010F=0010E"
         \o " 0111=00110 0113=00112 0115=00114 0117=00116 0119=00118 011B=0011A 011D=0011C 011F=0011E"
         \o " 0121=00120 0123=00122 0125=00124 0127=00126 0129=00128 012B=0012A 012D=0012C 012F=0012E"
         \o " 0131=00049 0133=00132 0135=00134 0137=00136 013A=00139 013C=0013B 013E=0013D 0140=0013F"
         \o " 0142=00141 0144=00143 0146=00145 0148=00147 0149=002BC0004E 014B=0014A 014D=0014C 014F=0014E"
         \o " 0151=00150 0153=00152 0155=00154 0157=00156 0159=00158 015B=0015A 015D=0015C 015F=0015E"
         \o " 0161=00160 0163=00162 0165=00164 0167=00166 0169=00168 016B=0016A 016D=0016C 016F=0016E"
         \o " 0171=00170 0173=00172 0175=00174 0177=00176 017A=00179 017C=0017B 017E=0017D 017F=00053"
         \o " 0180=00243 0183=00182 0185=00184 0188=00187 018C=0018B 0192=00191 0195=001F6 0199=00198"
         \o " 019A=0023D 019B=0A7DC 019E=00220 01A1=001A0 01A3=001A2 01A5=001A4 01A8=001A7 01AD=001AC"
         \o " 01B0=001AF 01B4=001B3 01B6=001B5 01B9=001B8 01BD=001BC 01BF=001F7 01C5=001C4 01C6=001C4"
         \o " 01C8=001C7 01C9=001C7 01CB=001CA 01CC=001CA 01CE=001CD 01D0=001CF 01D2=001D1 01D4=001D3"
         \o " 01D6=001D5 01D8=001D7 01DA=001D9 01DC=001DB 01DD=0018E 01DF=001DE 01E1=001E0 01E3=001E2"
         \o " 01E5=001E4 01E7=001E6 01E9=001E8 01EB=001EA 01ED=001EC 01EF=001EE 01F0=0004A0030C 01F2=001F1"
         \o " 01F3=001F1 01F5=001F4 01F9=001F8 01FB=001FA 01FD=001FC 01FF=001FE "
    [] row = "02" ->
         " 0201=00200 0203=00202 0205=00204 0207=00206 0209=00208 020B=0020A 020D=0020C 020F=0020E"
         \o " 0211=00210 0213=00212 0215=00214 0217=00216 0219=00218 021B=0021A 021D=0021C 021F=0021E"
         \o " 0223=00222 0225=00224 0227=00226 0229=00228 022B=0022A 022D=0022C 022F=0022E 0231=00230"
         \o " 0233=00232 023C=0023B 023F=02C7E 0240=02C7F 0242=00241 0247=00246 0249=00248 024B=0024A"
         \o " 024D=0024C 024F=0024E 0250=02C6F 0251=02C6D 0252=02C70 0253=00181 0254=00186 0256=00189"
         \o " 0257=0018A 0259=0018F 025B=00190 025C=0A7AB 0260=00193 0261=0A7AC 0263=00194 0264=0A7CB"
         \o " 0265=0A78D 0266=0A7AA 0268=00197 0269=00196 026A=0A7AE 026B=02C62 026C=0A7AD 026F=0019C"
         \o " 0271=02C6E 0272=0019D 0275=0019F 027D=02C64 0280=001A6 0282=0A7C5 0283=001A9 0287=0A7B1"
         \o " 0288=001AE 0289=00244 028A=001B1 028B=001B2 028C=00245 0292=001B7 029D=0A7B2 029E=0A7B0 "
    [] row = "03" ->
         " 0345=00399 0371=00370 0373=00372 0377=00376 037B=003FD 037C=003FE 037D=003FF"
         \o " 0390=003990030800301 03AC=00386 03AD=00388 03AE=00389 03AF=0038A 03B0=003A50030800301"
         \o " 03B1=00391 03B2=00392 03B3=00393 03B4=00394 03B5=00395 03B6=00396 03B7=00397 03B8=00398"
         \o " 03B9=00399 03BA=0039A 03BB=0039B 03BC=0039C 03BD=0039D 03BE=0039E 03BF=0039F 03C0=003A0"
         \o " 03C1=003A1 03C2=003A3 03C3=003A3 03C4=003A4 03C5=003A5 03C6=003A6 03C7=003A7 03C8=003A8"
         \o " 03C9=003A9 03CA=003AA 03CB=003AB 03CC=0038C 03CD=0038E 03CE=0038F 03D0=00392 03D1=00398"
         \o " 03D5=003A6 03D6=003A0 03D7=003CF 03D9=003D8 03DB=003DA 03DD=003DC 03DF=003DE 03E1=003E0"
         \o " 03E3=003E2 03E5=003E4 03E7=003E6 03E9=003E8 03EB=003EA 03ED=003EC 03EF=003EE 03F0=0039A"
         \o " 03F1=003A1 03F2=003F9 03F3=0037F 03F5=00395 03F8=003F7 03FB=003FA "
    [] row = "04" ->
         " 0430=00410 0431=00411 0432=00412 0433=00413 0434=00414 0435=00415 0436=00416 0437=00417"
         \o " 0438=00418 0439=00419 043A=0041A 043B=0041B 043C=0041C 043D=0041D 043E=0041E 043F=0041F"
         \o " 0440=00420 0441=00421 0442=00422 0443=00423 0444=00424 0445=00425 0446=00426 0447=00427"
         \o " 0448=00428 0449=00429 044A=0042A 044B=0042B 044C=0042C 044D=0042D 044E=0042E 044F=0042F"
         \o " 0450=00400 0451=00401 0452=00402 0453=00403 0454=00404 0455=00405 0456=00406 0457=00407"
         \o " 0458=00408 0459=00409 045A=0040A 045B=0040B 045C=0040C 045D=0040D 045E=0040E 045F=0040F"
         \o " 0461=00460 0463=00462 0465=00464 0467=00466 0469=00468 046B=0046A 046D=0046C 046F=0046E"
         \o " 0471=00470 0473=00472 0475=00474 0477=00476 0479=00478 047B=0047A 047D=0047C 047F=0047E"
         \o " 0481=00480 048B=0048A 048D=0048C 048F=0048E 0491=00490 0493=00492 0495=00494 0497=00496"
         \o " 0499=00498 049B=0049A 049D=0049C 049F=0049E 04A1=004A0 04A3=004A2 04A5=004A4 04A7=004A6"
         \o " 04A9=004A8 04AB=004AA 04AD=004AC 04AF=004AE 04B1=004B0 04B3=004B2 04B5=004B4 04B7=004B6"
         \o " 04B9=004B8 04BB=004BA 04BD=004BC 04BF=004BE 04C2=004C1 04C4=004C3 04C6=004C5 04C8=004C7"
         \o " 04CA=004C9 04CC=004CB 04CE=004CD 04CF=004C0 04D1=004D0 04D3=004D2 04D5=004D4 04D7=004D6"
         \o " 04D9=004D8 04DB=004DA 04DD=004DC 04DF=004DE 04E1=004E0 04E3=004E2 04E5=004E4 04E7=004E6"
         \o " 04E9=004E8 04EB=004EA 04ED=004EC 04EF=004EE 04F1=004F0 04F3=004F2 04F5=004F4 04F7=004F6"
         \o " 04F9=004F8 04FB=004FA 04FD=004FC 04FF=004FE "
    [] row = "05" ->
         " 0501=00500 0503=00502 0505=00504 0507=00506 0509=00508 050B=0050A 050D=0050C 050F=0050E"
         \o " 0511=00510 0513=00512 0515=00514 0517=00516 0519=00518 051B=0051A 051D=0051C 051F=0051E"
         \o " 0521=00520 0523=00522 0525=00524 0527=00526 0529=00528 052B=0052A 052D=0052C 052F=0052E"
         \o " 0561=00531 0562=00532 0563=00533 0564=00534 0565=00535 0566=00536 0567=00537 0568=00538"
         \o " 0569=00539 056A=0053A 056B=0053B 056C=0053C 056D=0053D 056E=0053E 056F=0053F 0570=00540"
         \o " 0571=00541 0572=00542 0573=00543 0574=00544 0575=00545 0576=00546 0577=00547 0578=00548"
         \o " 0579=00549 057A=0054A 057B=0054B 057C=0054C 057D=0054D 057E=0054E 057F=0054F 0580=00550"
         \o " 0581=00551 0582=00552 0583=00553 0584=00554 0585=00555 0586=00556 0587=0053500552 "
    [] row = "10" ->
         " 10D0=01C90 10D1=01C91 10D2=01C92 10D3=01C93 10D4=01C94 10D5=01C95 10D6=01C96 10D7=01C97"
         \o " 10D8=01C98 10D9=01C99 10DA=01C9A 10DB=01C9B 10DC=01C9C 10DD=01C9D 10DE=01C9E 10DF=01C9F"
         \o " 10E0=01CA0 10E1=01CA1 10E2=01CA2 10E3=01CA3 10E4=01CA4 10E5=01CA5 10E6=01CA6 10E7=01CA7"
         \o " 10E8=01CA8 10E9=01CA9 10EA=01CAA 10EB=01CAB 10EC=01CAC 10ED=01CAD 10EE=01CAE 10EF=01CAF"
         \o " 10F0=01CB0 10F1=01CB1 10F2=01CB2 10F3=01CB3 10F4=01CB4 10F5=01CB5 10F6=01CB6 10F7=01CB7"
         \o " 10F8=01CB8 10F9=01CB9 10FA=01CBA 10FD=01CBD 10FE=01CBE 10FF=01CBF "
    [] row = "104" ->
         " 10428=10400 10429=10401 1042A=10402 1042B=10403 1042C=10404 1042D=10405 1042E=10406 1042F=10407"
         \o " 10430=10408 10431=10409 10432=1040A 10433=1040B 10434=1040C 10435=1040D 10436=1040E 10437=1040F"
         \o " 10438=10410 10439=10411 1043A=10412 1043B=10413 1043C=10414 1043D=10415 1043E=10416 1043F=10417"
         \o " 10440=10418 10441=10419 10442=1041A 10443=1041B 10444=1041C 10445=1041D 10446=1041E 10447=1041F"
         \o " 10448=10420 10449=10421 1044A=10422 1044B=10423 1044C=10424 1044D=10425 1044E=10426 1044F=10427"
         \o " 104D8=104B0 104D9=104B1 104DA=104B2 104DB=104B3 104DC=104B4 104DD=104B5 104DE=104B6 104DF=104B7"
         \o " 104E0=104B8 104E1=104B9 104E2=104BA 104E3=104BB 104E4=104BC 104E5=104BD 104E6=104BE 104E7=104BF"
         \o " 104E8=104C0 104E9=104C1 104EA=104C2 104EB=104C3 104EC=104C4 104ED=104C5 104EE=104C6 104EF=104C7"
         \o " 104F0=104C8 104F1=104C9 104F2=104CA 104F3=104CB 104F4=104CC 104F5=104CD 104F6=104CE 104F7=104CF"
         \o " 104F8=104D0 104F9=104D1 104FA=104D2 104FB=104D3 "
    [] row = "105" ->
         " 10597=10570 10598=10571 10599=10572 1059A=10573 1059B=10574 1059C=10575 1059D=10576 1059E=10577"
         \o " 1059F=10578 105A0=10579 105A1=1057A 105A3=1057C 105A4=1057D 105A5=1057E 105A6=1057F 105A7=10580"
         \o " 105A8=10581 105A9=10582 105AA=10583 105AB=10584 105AC=10585 105AD=10586 105AE=10587 105AF=10588"
         \o " 105B0=10589 105B1=1058A 105B3=1058C 105B4=1058D 105B5=1058E 105B6=1058F 105B7=10590 105B8=10591"
         \o " 105B9=10592 105BB=10594 105BC=10595 "
    [] row = "10C" ->
         " 10CC0=10C80 10CC1=10C81 10CC2=10C82 10CC3=10C83 10CC4=10C84 10CC5=10C85 10CC6=10C86 10CC7=10C87"
         \o " 10CC8=10C88 10CC9=10C89 10CCA=10C8A 10CCB=10C8B 10CCC=10C8C 10CCD=10C8D 10CCE=10C8E 10CCF=10C8F"
         \o " 10CD0=10C90 10CD1=10C91 10CD2=10C92 10CD3=10C93 10CD4=10C94 10CD5=10C95 10CD6=10C96 10CD7=10C97"
         \o " 10CD8=10C98 10CD9=10C99 10CDA=10C9A 10CDB=10C9B 10CDC=10C9C 10CDD=10C9D 10CDE=10C9E 10CDF=10C9F"
         \o " 10CE0=10CA0 10CE1=10CA1 10CE2=10CA2 10CE3=10CA3 10CE4=10CA4 10CE5=10CA5 10CE6=10CA6 10CE7=10CA7"
         \o " 10CE8=10CA8 10CE9=10CA9 10CEA=10CAA 10CEB=10CAB 10CEC=10CAC 10CED=10CAD 10CEE=10CAE 10CEF=10CAF"
         \o " 10CF0=10CB0 10CF1=10CB1 10CF2=10CB2 "
    [] row = "10D" ->
         " 10D70=10D50 10D71=10D51 10D72=10D52 10D73=10D53 10D74=10D54 10D75=10D55 10D76=10D56 10D77=10D57"
         \o " 10D78=10D58 10D79=10D59 10D7A=10D5A 10D7B=10D5B 10D7C=10D5C 10D7D=10D5D 10D7E=10D5E 10D7F=10D5F"
         \o " 10D80=10D60 10D81=10D61 10D82=10D62 10D83=10D63 10D84=10D64 10D85=10D65 "
    [] row = "118" ->
         " 118C0=118A0 118C1=118A1 118C2=118A2 118C3=118A3 118C4=118A4 118C5=118A5 118C6=118A6 118C7=118A7"
         \o " 118C8=118A8 118C9=118A9 118CA=118AA 118CB=118AB 118CC=118AC 118CD=118AD 118CE=118AE 118CF=118AF"
         \o " 118D0=118B0 118D1=118B1 118D2=118B2 118D3=118B3 118D4=118B4 118D5=118B5 118D6=118B6 118D7=118B7"
         \o " 118D8=118B8 118D9=118B9 118DA=118BA 118DB=118BB 118DC=118BC 118DD=118BD 118DE=118BE 118DF=118BF "
    [] row = "13" ->
         " 13F8=013F0 13F9=013F1 13FA=013F2 13FB=013F3 13FC=013F4 13FD=013F5 "
    [] row = "16E" ->
         " 16E60=16E40 16E61=16E41 16E62=16E42 16E63=16E43 16E64=16E44 16E65=16E45 16E66=16E46 16E67=16E47"
         \o " 16E68=16E48 16E69=16E49 16E6A=16E4A 16E6B=16E4B 16E6C=16E4C 16E6D=16E4D 16E6E=16E4E 16E6F=16E4F"
         \o " 16E70=16E50 16E71=16E51 16E72=16E52 16E73=16E53 16E74=16E54 16E75=16E55 16E76=16E56 16E77=16E57"
         \o " 16E78=16E58 16E79=16E59 16E7A=16E5A 16E7B=16E5B 16E7C=16E5C 16E7D=16E5D 16E7E=16E5E 16E7F=16E5F"
         \o " 16EBB=16EA0 16EBC=16EA1 16EBD=16EA2 16EBE=16EA3 16EBF=16EA4 16EC0=16EA5 16EC1=16EA6 16EC2=16EA7"
         \o " 16EC3=16EA8 16EC4=16EA9 16EC5=16EAA 16EC6=16EAB 16EC7=16EAC 16EC8=16EAD 16EC9=16EAE 16ECA=16EAF"
         \o " 16ECB=16EB0 16ECC=16EB1 16ECD=16EB2 16ECE=16EB3 16ECF=16EB4 16ED0=16EB5 16ED1=16EB6 16ED2=16EB7"
         \o " 16ED3=16EB8 "
    [] row = "1C" ->
         " 1C80=00412 1C81=00414 1C82=0041E 1C83=00421 1C84=00422 1C85=00422 1C86=0042A 1C87=00462"
         \o " 1C88=0A64A 1C8A=01C89 "
    [] row = "1D" ->
         " 1D79=0A77D 1D7D=02C63 1D8E=0A7C6 "
    [] row = "1E" ->
         " 1E01=01E00 1E03=01E02 1E05=01E04 1E07=01E06 1E09=01E08 1E0B=01E0A 1E0D=01E0C 1E0F=01E0E"
         \o " 1E11=01E10 1E13=01E12 1E15=01E14 1E17=01E16 1E19=01E18 1E1B=01E1A 1E1D=01E1C 1E1F=01E1E"
         \o " 1E21=01E20 1E23=01E22 1E25=01E24 1E27=01E26 1E29=01E28 1E2B=01E2A 1E2D=01E2C 1E2F=01E2E"
         \o " 1E31=01E30 1E33=01E32 1E35=01E34 1E37=01E36 1E39=01E38 1E3B=01E3A 1E3D=01E3C 1E3F=01E3E"
         \o " 1E41=01E40 1E43=01E42 1E45=01E44 1E47=01E46 1E49=01E48 1E4B=01E4A 1E4D=01E4C 1E4F=01E4E"
         \o " 1E51=01E50 1E53=01E52 1E55=01E54 1E57=01E56 1E59=01E58 1E5B=01E5A 1E5D=01E5C 1E5F=01E5E"
         \o " 1E61=01E60 1E63=01E62 1E65=01E64 1E67=01E66 1E69=01E68 1E6B=01E6A 1E6D=01E6C 1E6F=01E6E"
         \o " 1E71=01E70 1E73=01E72 1E75=01E74 1E77=01E76 1E79=01E78 1E7B=01E7A 1E7D=01E7C 1E7F=01E7E"
         \o " 1E81=01E80 1E83=01E82 1E85=01E84 1E87=01E86 1E89=01E88 1E8B=01E8A 1E8D=01E8C 1E8F=01E8E"
         \o " 1E91=01E90 1E93=01E92 1E95=01E94 1E96=0004800331 1E97=0005400308 1E98=000570030A"
         \o " 1E99=000590030A 1E9A=00041002BE 1E9B=01E60 1EA1=01EA0 1EA3=01EA2 1EA5=01EA4 1EA7=01EA6"
         \o " 1EA9=01EA8 1EAB=01EAA 1EAD=01EAC 1EAF=01EAE 1EB1=01EB0 1EB3=01EB2 1EB5=01EB4 1EB7=01EB6"
         \o " 1EB9=01EB8 1EBB=01EBA 1EBD=01EBC 1EBF=01EBE 1EC1=01EC0 1EC3=01EC2 1EC5=01EC4 1EC7=01EC6"
         \o " 1EC9=01EC8 1ECB=01ECA 1ECD=01ECC 1ECF=01ECE 1ED1=01ED0 1ED3=01ED2 1ED5=01ED4 1ED7=01ED6"
         \o " 1ED9=01ED8 1EDB=01EDA 1EDD=01EDC 1EDF=01EDE 1EE1=01EE0 1EE3=01EE2 1EE5=01EE4 1EE7=01EE6"
         \o " 1EE9=01EE8 1EEB=01EEA 1EED=01EEC 1EEF=01EEE 1EF1=01EF0 1EF3=01EF2 1EF5=01EF4 1EF7=01EF6"
         \o " 1EF9=01EF8 1EFB=01EFA 1EFD=01EFC 1EFF=01EFE "
    [] row = "1E9" ->
         " 1E922=1E900 1E923=1E901 1E924=1E902 1E925=1E903 1E926=1E904 1E927=1E905 1E928=1E906 1E929=1E907"
         \o " 1E92A=1E908 1E92B=1E909 1E92C=1E90A 1E92D=1E90B 1E92E=1E90C 1E92F=1E90D 1E930=1E90E 1E931=1E90F"
         \o " 1E932=1E910 1E933=1E911 1E934=1E912 1E935=1E913 1E936=1E914 1E937=1E915 1E938=1E916 1E939=1E917"
         \o " 1E93A=1E918 1E93B=1E919 1E93C=1E91A 1E93D=1E91B 1E93E=1E91C 1E93F=1E91D 1E940=1E91E 1E941=1E91F"
         \o " 1E942=1E920 1E943=1E921 "
    [] row = "1F" ->
         " 1F00=01F08 1F01=01F09 1F02=01F0A 1F03=01F0B 1F04=01F0C 1F05=01F0D 1F06=01F0E 1F07=01F0F"
         \o " 1F10=01F18 1F11=01F19 1F12=01F1A 1F13=01F1B 1F14=01F1C 1F15=01F1D 1F20=01F28 1F21=01F29"
         \o " 1F22=01F2A 1F23=01F2B 1F24=01F2C 1F25=01F2D 1F26=01F2E 1F27=01F2F 1F30=01F38 1F31=01F39"
         \o " 1F32=01F3A 1F33=01F3B 1F34=01F3C 1F35=01F3D 1F36=01F3E 1F37=01F3F 1F40=01F48 1F41=01F49"
         \o " 1F42=01F4A 1F43=01F4B 1F44=01F4C 1F45=01F4D 1F50=003A500313 1F51=01F59 1F52=003A50031300300"
         \o " 1F53=01F5B 1F54=003A50031300301 1F55=01F5D 1F56=003A50031300342 1F57=01F5F 1F60=01F68"
         \o " 1F61=01F69 1F62=01F6A 1F63=01F6B 1F64=01F6C 1F65=01F6D 1F66=01F6E 1F67=01F6F 1F70=01FBA"
         \o " 1F71=01FBB 1F72=01FC8 1F73=01FC9 1F74=01FCA 1F75=01FCB 1F76=01FDA 1F77=01FDB 1F78=01FF8"
         \o " 1F79=01FF9 1F7A=01FEA 1F7B=01FEB 1F7C=01FFA 1F7D=01FFB 1F80=01F0800399 1F81=01F0900399"
         \o " 1F82=01F0A00399 1F83=01F0B00399 1F84=01F0C00399 1F85=01F0D00399 1F86=01F0E00399 1F87=01F0F00399"
         \o " 1F88=01F0800399 1F89=01F0900399 1F8A=01F0A00399 1F8B=01F0B00399 1F8C=01F0C00399 1F8D=01F0D00399"
         \o " 1F8E=01F0E00399 1F8F=01F0F00399 1F90=01F2800399 1F91=01F2900399 1F92=01F2A00399 1F93=01F2B00399"
         \o " 1F94=01F2C00399 1F95=01F2D00399 1F96=01F2E00399 1F97=01F2F00399 1F98=01F2800399 1F99=01F2900399"
         \o " 1F9A=01F2A00399 1F9B=01F2B00399 1F9C=01F2C00399 1F9D=01F2D00399 1F9E=01F2E00399 1F9F=01F2F00399"
         \o " 1FA0=01F6800399 1FA1=01F6900399 1FA2=01F6A00399 1FA3=01F6B00399 1FA4=01F6C00399 1FA5=01F6D00399"
         \o " 1FA6=01F6E00399 1FA7=01F6F00399 1FA8=01F6800399 1FA9=01F6900399 1FAA=01F6A00399 1FAB=01F6B00399"
         \o " 1FAC=01F6C00399 1FAD=01F6D00399 1FAE=01F6E00399 1FAF=01F6F00399 1FB0=01FB8 1FB1=01FB9"
         \o " 1FB2=01FBA00399 1FB3=0039100399 1FB4=0038600399 1FB6=0039100342 1FB7=003910034200399"
         \o " 1FBC=0039100399 1FBE=00399 1FC2=01FCA00399 1FC3=0039700399 1FC4=0038900399 1FC6=0039700342"
         \o " 1FC7=003970034200399 1FCC=0039700399 1FD0=01FD8 1FD1=01FD9 1FD2=003990030800300"
         \o " 1FD3=003990030800301 1FD6=0039900342 1FD7=003990030800342 1FE0=01FE8 1FE1=01FE9"
         \o " 1FE2=003A50030800300 1FE3=003A50030800301 1FE4=003A100313 1FE5=01FEC 1FE6=003A500342"
         \o " 1FE7=003A50030800342 1FF2=01FFA00399 1FF3=003A900399 1FF4=0038F00399 1FF6=003A900342"
         \o " 1FF7=003A90034200399 1FFC=003A900399 "
    [] row = "21" ->
         " 214E=02132 2170=02160 2171=02161 2172=02162 2173=02163 2174=02164 2175=02165 2176=02166"
         \o " 2177=02167 2178=02168 2179=02169 217A=0216A 217B=0216B 217C=0216C 217D=0216D 217E=0216E"
         \o " 217F=0216F 2184=02183 "
    [] row = "24" ->
         " 24D0=024B6 24D1=024B7 24D2=024B8 24D3=024B9 24D4=024BA 24D5=024BB 24D6=024BC 24D7=024BD"
         \o " 24D8=024BE 24D9=024BF 24DA=024C0 24DB=024C1 24DC=024C2 24DD=024C3 24DE=024C4 24DF=024C5"
         \o " 24E0=024C6 24E1=024C7 24E2=024C8 24E3=024C9 24E4=024CA 24E5=024CB 24E6=024CC 24E7=024CD"
         \o " 24E8=024CE 24E9=024CF "
    [] row = "2C" ->
         " 2C30=02C00 2C31=02C01 2C32=02C02 2C33=02C03 2C34=02C04 2C35=02C05 2C36=02C06 2C37=02C07"
         \o " 2C38=02C08 2C39=02C09 2C3A=02C0A 2C3B=02C0B 2C3C=02C0C 2C3D=02C0D 2C3E=02C0E 2C3F=02C0F"
         \o " 2C40=02C10 2C41=02C11 2C42=02C12 2C43=02C13 2C44=02C14 2C45=02C15 2C46=02C16 2C47=02C17"
         \o " 2C48=02C18 2C49=02C19 2C4A=02C1A 2C4B=02C1B 2C4C=02C1C 2C4D=02C1D 2C4E=02C1E 2C4F=02C1F"
         \o " 2C50=02C20 2C51=02C21 2C52=02C22 2C53=02C23 2C54=02C24 2C55=02C25 2C56=02C26 2C57=02C27"
         \o " 2C58=02C28 2C59=02C29 2C5A=02C2A 2C5B=02C2B 2C5C=02C2C 2C5D=02C2D 2C5E=02C2E 2C5F=02C2F"
         \o " 2C61=02C60 2C65=0023A 2C66=0023E 2C68=02C67 2C6A=02C69 2C6C=02C6B 2C73=02C72 2C76=02C75"
         \o " 2C81=02C80 2C83=02C82 2C85=02C84 2C87=02C86 2C89=02C88 2C8B=02C8A 2C8D=02C8C 2C8F=02C8E"
         \o " 2C91=02C90 2C93=02C92 2C95=02C94 2C97=02C96 2C99=02C98 2C9B=02C9A 2C9D=02C9C 2C9F=02C9E"
         \o " 2CA1=02CA0 2CA3=02CA2 2CA5=02CA4 2CA7=02CA6 2CA9=02CA8 2CAB=02CAA 2CAD=02CAC 2CAF=02CAE"
         \o " 2CB1=02CB0 2CB3=02CB2 2CB5=02CB4 2CB7=02CB6 2CB9=02CB8 2CBB=02CBA 2CBD=02CBC 2CBF=02CBE"
         \o " 2CC1=02CC0 2CC3=02CC2 2CC5=02CC4 2CC7=02CC6 2CC9=02CC8 2CCB=02CCA 2CCD=02CCC 2CCF=02CCE"
         \o " 2CD1=02CD0 2CD3=02CD2 2CD5=02CD4 2CD7=02CD6 2CD9=02CD8 2CDB=02CDA 2CDD=02CDC 2CDF=02CDE"
         \o " 2CE1=02CE0 2CE3=02CE2 2CEC=02CEB 2CEE=02CED 2CF3=02CF2 "
    [] row = "2D" ->
         " 2D00=010A0 2D01=010A1 2D02=010A2 2D03=010A3 2D04=010A4 2D05=010A5 2D06=010A6 2D07=010A7"
         \o " 2D08=010A8 2D09=010A9 2D0A=010AA 2D0B=010AB 2D0C=010AC 2D0D=010AD 2D0E=010AE 2D0F=010AF"
         \o " 2D10=010B0 2D11=010B1 2D12=010B2 2D13=010B3 2D14=010B4 2D15=010B5 2D16=010B6 2D17=010B7"
         \o " 2D18=010B8 2D19=010B9 2D1A=010BA 2D1B=010BB 2D1C=010BC 2D1D=010BD 2D1E=010BE 2D1F=010BF"
         \o " 2D20=010C0 2D21=010C1 2D22=010C2 2D23=010C3 2D24=010C4 2D25=010C5 2D27=010C7 2D2D=010CD "
    [] row = "A6" ->
         " A641=0A640 A643=0A642 A645=0A644 A647=0A646 A649=0A648 A64B=0A64A A64D=0A64C A64F=0A64E"
         \o " A651=0A650 A653=0A652 A655=0A654 A657=0A656 A659=0A658 A65B=0A65A A65D=0A65C A65F=0A65E"
         \o " A661=0A660 A663=0A662 A665=0A664 A667=0A666 A669=0A668 A66B=0A66A A66D=0A66C A681=0A680"
         \o " A683=0A682 A685=0A684 A687=0A686 A689=0A688 A68B=0A68A A68D=0A68C A68F=0A68E A691=0A690"
         \o " A693=0A692 A695=0A694 A697=0A696 A699=0A698 A69B=0A69A "
    [] row = "A7" ->
         " A723=0A722 A725=0A724 A727=0A726 A729=0A728 A72B=0A72A A72D=0A72C A72F=0A72E A733=0A732"
         \o " A735=0A734 A737=0A736 A739=0A738 A73B=0A73A A73D=0A73C A73F=0A73E A741=0A740 A743=0A742"
         \o " A745=0A744 A747=0A746 A749=0A748 A74B=0A74A A74D=0A74C A74F=0A74E A751=0A750 A753=0A752"
         \o " A755=0A754 A757=0A756 A759=0A758 A75B=0A75A A75D=0A75C A75F=0A75E A761=0A760 A763=0A762"
         \o " A765=0A764 A767=0A766 A769=0A768 A76B=0A76A A76D=0A76C A76F=0A76E A77A=0A779 A77C=0A77B"
         \o " A77F=0A77E A781=0A780 A783=0A782 A785=0A784 A787=0A786 A78C=0A78B A791=0A790 A793=0A792"
         \o " A794=0A7C4 A797=0A796 A799=0A798 A79B=0A79A A79D=0A79C A79F=0A79E A7A1=0A7A0 A7A3=0A7A2"
         \o " A7A5=0A7A4 A7A7=0A7A6 A7A9=0A7A8 A7B5=0A7B4 A7B7=0A7B6 A7B9=0A7B8 A7BB=0A7BA A7BD=0A7BC"
         \o " A7BF=0A7BE A7C1=0A7C0 A7C3=0A7C2 A7C8=0A7C7 A7CA=0A7C9 A7CD=0A7CC A7CF=0A7CE A7D1=0A7D0"
         \o " A7D3=0A7D2 A7D5=0A7D4 A7D7=0A7D6 A7D9=0A7D8 A7DB=0A7DA A7F6=0A7F5 "
    [] row = "AB" ->
         " AB53=0A7B3 AB70=013A0 AB71=013A1 AB72=013A2 AB73=013A3 AB74=013A4 AB75=013A5 AB76=013A6"
         \o " AB77=013A7 AB78=013A8 AB79=013A9 AB7A=013AA AB7B=013AB AB7C=013AC AB7D=013AD AB7E=013AE"
         \o " AB7F=013AF AB80=013B0 AB81=013B1 AB82=013B2 AB83=013B3 AB84=013B4 AB85=013B5 AB86=013B6"
         \o " AB87=013B7 AB88=013B8 AB89=013B9 AB8A=013BA AB8B=013BB AB8C=013BC AB8D=013BD AB8E=013BE"
         \o " AB8F=013BF AB90=013C0 AB91=013C1 AB92=013C2 AB93=013C3 AB94=013C4 AB95=013C5 AB96=013C6"
         \o " AB97=013C7 AB98=013C8 AB99=013C9 AB9A=013CA AB9B=013CB AB9C=013CC AB9D=013CD AB9E=013CE"
         \o " AB9F=013CF ABA0=013D0 ABA1=013D1 ABA2=013D2 ABA3=013D3 ABA4=013D4 ABA5=013D5 ABA6=013D6"
         \o " ABA7=013D7 ABA8=013D8 ABA9=013D9 ABAA=013DA ABAB=013DB ABAC=013DC ABAD=013DD ABAE=013DE"
         \o " ABAF=013DF ABB0=013E0 ABB1=013E1 ABB2=013E2 ABB3=013E3 ABB4=013E4 ABB5=013E5 ABB6=013E6"
         \o " ABB7=013E7 ABB8=013E8 ABB9=013E9 ABBA=013EA ABBB=013EB ABBC=013EC ABBD=013ED ABBE=013EE"
         \o " ABBF=013EF "
    [] row = "FB" ->
         " FB00=0004600046 FB01=0004600049 FB02=000460004C FB03=000460004600049 FB04=00046000460004C"
         \o " FB05=0005300054 FB06=0005300054 FB13=0054400546 FB14=0054400535 FB15=005440053B FB16=0054E00546"
         \o " FB17=005440053D "
    [] row = "FF" ->
         " FF41=0FF21 FF42=0FF22 FF43=0FF23 FF44=0FF24 FF45=0FF25 FF46=0FF26 FF47=0FF27 FF48=0FF28"
         \o " FF49=0FF29 FF4A=0FF2A FF4B=0FF2B FF4C=0FF2C FF4D=0FF2D FF4E=0FF2E FF4F=0FF2F FF50=0FF30"
         \o " FF51=0FF31 FF52=0FF32 FF53=0FF33 FF54=0FF34 FF55=0FF35 FF56=0FF36 FF57=0FF37 FF58=0FF38"
         \o " FF59=0FF39 FF5A=0FF3A "
    [] OTHER -> " "

\* String.prototype.toUpperCase
toUpperCase(s) ==
  join([k \in 1..Len(s) |->
          IF \E j \in 1..26 : LowerCase[j] = s[k]
            THEN <<UpperCase[CHOOSE j \in 1..26 : LowerCase[j] = s[k]]>>
          ELSE IF beyondAscii(s[k])
            THEN LET code == codePointOf(s[k])
                     upper == lookup(UpperCaseMapping(SubSeq(code, 1, Len(code) - 2)), code)
                 IN  IF upper # <<>> THEN upper ELSE <<s[k]>>
          ELSE <<s[k]>>],
       <<>>)

\* the regular expression class \w
IsWord(c) ==
  \/ \E j \in 1..26 : c = LowerCase[j] \/ c = UpperCase[j]
  \/ \E j \in 1..10 : c = Digits[j]
  \/ c = "_"

(***************************************************************************)
(* The text getters of node-html-parser: what the parser keeps of a text   *)
(* node is its raw text, as it stands in the HTML, and node.text and       *)
(* node.textContent hand it through decode of the he library               *)
(***************************************************************************)
Alnum ==
  {LowerCase[j] : j \in 1..26} \cup {UpperCase[j] : j \in 1..26} \cup {Digits[j] : j \in 1..10}

DecDigits == {Digits[j] : j \in 1..10}

HexSet == {HexDigits[j] : j \in 1..16} \cup {HexDigitsLower[j] : j \in 1..16}

\* the length of the longest prefix of s made of characters of set
prefixLen(s, set) == Cardinality({n \in 1..Len(s) : \A m \in 1..n : s[m] \in set})

\* he's decodeMapNumeric: the code points a numeric reference does not stand
\* for itself
decodeMapNumeric == <<
  <<0,"U+FFFD">>, <<128,"U+20AC">>, <<130,"U+201A">>, <<131,"U+0192">>, <<132,"U+201E">>,
  <<133,"U+2026">>, <<134,"U+2020">>, <<135,"U+2021">>, <<136,"U+02C6">>, <<137,"U+2030">>,
  <<138,"U+0160">>, <<139,"U+2039">>, <<140,"U+0152">>, <<142,"U+017D">>, <<145,"U+2018">>,
  <<146,"U+2019">>, <<147,"U+201C">>, <<148,"U+201D">>, <<149,"U+2022">>, <<150,"U+2013">>,
  <<151,"U+2014">>, <<152,"U+02DC">>, <<153,"U+2122">>, <<154,"U+0161">>, <<155,"U+203A">>,
  <<156,"U+0153">>, <<158,"U+017E">>, <<159,"U+0178">> >>

\* he's codePointToSymbol, not strict
codePointToSymbol(codePoint) ==
  IF codePoint \in 55296..57343 \/ codePoint > 1114111 THEN "U+FFFD"
  ELSE IF \E j \in 1..Len(decodeMapNumeric) : decodeMapNumeric[j][1] = codePoint
    THEN decodeMapNumeric[CHOOSE j \in 1..Len(decodeMapNumeric) :
                            decodeMapNumeric[j][1] = codePoint][2]
  ELSE fromCharCode(codePoint)

\* he's decodeMap: the named character references of HTML, each name with
\* the characters it stands for; a table for each initial of the names
decodeMap(initial) ==
  CASE initial = "A" ->
         " AElig=000C6 AMP=00026 Aacute=000C1 Abreve=00102 Acirc=000C2 Acy=00410 Afr=1D504 Agrave=000C0"
         \o " Alpha=00391 Amacr=00100 And=02A53 Aogon=00104 Aopf=1D538 ApplyFunction=02061 Aring=000C5"
         \o " Ascr=1D49C Assign=02254 Atilde=000C3 Auml=000C4 "
    [] initial = "B" ->
         " Backslash=02216 Barv=02AE7 Barwed=02306 Bcy=00411 Because=02235 Bernoullis=0212C Beta=00392"
         \o " Bfr=1D505 Bopf=1D539 Breve=002D8 Bscr=0212C Bumpeq=0224E "
    [] initial = "C" ->
         " CHcy=00427 COPY=000A9 Cacute=00106 Cap=022D2 CapitalDifferentialD=02145 Cayleys=0212D"
         \o " Ccaron=0010C Ccedil=000C7 Ccirc=00108 Cconint=02230 Cdot=0010A Cedilla=000B8 CenterDot=000B7"
         \o " Cfr=0212D Chi=003A7 CircleDot=02299 CircleMinus=02296 CirclePlus=02295 CircleTimes=02297"
         \o " ClockwiseContourIntegral=02232 CloseCurlyDoubleQuote=0201D CloseCurlyQuote=02019 Colon=02237"
         \o " Colone=02A74 Congruent=02261 Conint=0222F ContourIntegral=0222E Copf=02102 Coproduct=02210"
         \o " CounterClockwiseContourIntegral=02233 Cross=02A2F Cscr=1D49E Cup=022D3 CupCap=0224D "
    [] initial = "D" ->
         " DD=02145 DDotrahd=02911 DJcy=00402 DScy=00405 DZcy=0040F Dagger=02021 Darr=021A1 Dashv=02AE4"
         \o " Dcaron=0010E Dcy=00414 Del=02207 Delta=00394 Dfr=1D507 DiacriticalAcute=000B4"
         \o " DiacriticalDot=002D9 DiacriticalDoubleAcute=002DD DiacriticalGrave=00060 DiacriticalTilde=002DC"
         \o " Diamond=022C4 DifferentialD=02146 Dopf=1D53B Dot=000A8 DotDot=020DC DotEqual=02250"
         \o " DoubleContourIntegral=0222F DoubleDot=000A8 DoubleDownArrow=021D3 DoubleLeftArrow=021D0"
         \o " DoubleLeftRightArrow=021D4 DoubleLeftTee=02AE4 DoubleLongLeftArrow=027F8"
         \o " DoubleLongLeftRightArrow=027FA DoubleLongRightArrow=027F9 DoubleRightArrow=021D2"
         \o " DoubleRightTee=022A8 DoubleUpArrow=021D1 DoubleUpDownArrow=021D5 DoubleVerticalBar=02225"
         \o " DownArrow=02193 DownArrowBar=02913 DownArrowUpArrow=021F5 DownBreve=00311"
         \o " DownLeftRightVector=02950 DownLeftTeeVector=0295E DownLeftVector=021BD DownLeftVectorBar=02956"
         \o " DownRightTeeVector=0295F DownRightVector=021C1 DownRightVectorBar=02957 DownTee=022A4"
         \o " DownTeeArrow=021A7 Downarrow=021D3 Dscr=1D49F Dstrok=00110 "
    [] initial = "E" ->
         " ENG=0014A ETH=000D0 Eacute=000C9 Ecaron=0011A Ecirc=000CA Ecy=0042D Edot=00116 Efr=1D508"
         \o " Egrave=000C8 Element=02208 Emacr=00112 EmptySmallSquare=025FB EmptyVerySmallSquare=025AB"
         \o " Eogon=00118 Eopf=1D53C Epsilon=00395 Equal=02A75 EqualTilde=02242 Equilibrium=021CC Escr=02130"
         \o " Esim=02A73 Eta=00397 Euml=000CB Exists=02203 ExponentialE=02147 "
    [] initial = "F" ->
         " Fcy=00424 Ffr=1D509 FilledSmallSquare=025FC FilledVerySmallSquare=025AA Fopf=1D53D ForAll=02200"
         \o " Fouriertrf=02131 Fscr=02131 "
    [] initial = "G" ->
         " GJcy=00403 GT=0003E Gamma=00393 Gammad=003DC Gbreve=0011E Gcedil=00122 Gcirc=0011C Gcy=00413"
         \o " Gdot=00120 Gfr=1D50A Gg=022D9 Gopf=1D53E GreaterEqual=02265 GreaterEqualLess=022DB"
         \o " GreaterFullEqual=02267 GreaterGreater=02AA2 GreaterLess=02277 GreaterSlantEqual=02A7E"
         \o " GreaterTilde=02273 Gscr=1D4A2 Gt=0226B "
    [] initial = "H" ->
         " HARDcy=0042A Hacek=002C7 Hat=0005E Hcirc=00124 Hfr=0210C HilbertSpace=0210B Hopf=0210D"
         \o " HorizontalLine=02500 Hscr=0210B Hstrok=00126 HumpDownHump=0224E HumpEqual=0224F "
    [] initial = "I" ->
         " IEcy=00415 IJlig=00132 IOcy=00401 Iacute=000CD Icirc=000CE Icy=00418 Idot=00130 Ifr=02111"
         \o " Igrave=000CC Im=02111 Imacr=0012A ImaginaryI=02148 Implies=021D2 Int=0222C Integral=0222B"
         \o " Intersection=022C2 InvisibleComma=02063 InvisibleTimes=02062 Iogon=0012E Iopf=1D540 Iota=00399"
         \o " Iscr=02110 Itilde=00128 Iukcy=00406 Iuml=000CF "
    [] initial = "J" ->
         " Jcirc=00134 Jcy=00419 Jfr=1D50D Jopf=1D541 Jscr=1D4A5 Jsercy=00408 Jukcy=00404 "
    [] initial = "K" ->
         " KHcy=00425 KJcy=0040C Kappa=0039A Kcedil=00136 Kcy=0041A Kfr=1D50E Kopf=1D542 Kscr=1D4A6 "
    [] initial = "L" ->
         " LJcy=00409 LT=0003C Lacute=00139 Lambda=0039B Lang=027EA Laplacetrf=02112 Larr=0219E"
         \o " Lcaron=0013D Lcedil=0013B Lcy=0041B LeftAngleBracket=027E8 LeftArrow=02190 LeftArrowBar=021E4"
         \o " LeftArrowRightArrow=021C6 LeftCeiling=02308 LeftDoubleBracket=027E6 LeftDownTeeVector=02961"
         \o " LeftDownVector=021C3 LeftDownVectorBar=02959 LeftFloor=0230A LeftRightArrow=02194"
         \o " LeftRightVector=0294E LeftTee=022A3 LeftTeeArrow=021A4 LeftTeeVector=0295A LeftTriangle=022B2"
         \o " LeftTriangleBar=029CF LeftTriangleEqual=022B4 LeftUpDownVector=02951 LeftUpTeeVector=02960"
         \o " LeftUpVector=021BF LeftUpVectorBar=02958 LeftVector=021BC LeftVectorBar=02952 Leftarrow=021D0"
         \o " Leftrightarrow=021D4 LessEqualGreater=022DA LessFullEqual=02266 LessGreater=02276"
         \o " LessLess=02AA1 LessSlantEqual=02A7D LessTilde=02272 Lfr=1D50F Ll=022D8 Lleftarrow=021DA"
         \o " Lmidot=0013F LongLeftArrow=027F5 LongLeftRightArrow=027F7 LongRightArrow=027F6"
         \o " Longleftarrow=027F8 Longleftrightarrow=027FA Longrightarrow=027F9 Lopf=1D543"
         \o " LowerLeftArrow=02199 LowerRightArrow=02198 Lscr=02112 Lsh=021B0 Lstrok=00141 Lt=0226A "
    [] initial = "M" ->
         " Map=02905 Mcy=0041C MediumSpace=0205F Mellintrf=02133 Mfr=1D510 MinusPlus=02213 Mopf=1D544"
         \o " Mscr=02133 Mu=0039C "
    [] initial = "N" ->
         " NJcy=0040A Nacute=00143 Ncaron=00147 Ncedil=00145 Ncy=0041D NegativeMediumSpace=0200B"
         \o " NegativeThickSpace=0200B NegativeThinSpace=0200B NegativeVeryThinSpace=0200B"
         \o " NestedGreaterGreater=0226B NestedLessLess=0226A NewLine=0000A Nfr=1D511 NoBreak=02060"
         \o " NonBreakingSpace=000A0 Nopf=02115 Not=02AEC NotCongruent=02262 NotCupCap=0226D"
         \o " NotDoubleVerticalBar=02226 NotElement=02209 NotEqual=02260 NotEqualTilde=0224200338"
         \o " NotExists=02204 NotGreater=0226F NotGreaterEqual=02271 NotGreaterFullEqual=0226700338"
         \o " NotGreaterGreater=0226B00338 NotGreaterLess=02279 NotGreaterSlantEqual=02A7E00338"
         \o " NotGreaterTilde=02275 NotHumpDownHump=0224E00338 NotHumpEqual=0224F00338 NotLeftTriangle=022EA"
         \o " NotLeftTriangleBar=029CF00338 NotLeftTriangleEqual=022EC NotLess=0226E NotLessEqual=02270"
         \o " NotLessGreater=02278 NotLessLess=0226A00338 NotLessSlantEqual=02A7D00338 NotLessTilde=02274"
         \o " NotNestedGreaterGreater=02AA200338 NotNestedLessLess=02AA100338 NotPrecedes=02280"
         \o " NotPrecedesEqual=02AAF00338 NotPrecedesSlantEqual=022E0 NotReverseElement=0220C"
         \o " NotRightTriangle=022EB NotRightTriangleBar=029D000338 NotRightTriangleEqual=022ED"
         \o " NotSquareSubset=0228F00338 NotSquareSubsetEqual=022E2 NotSquareSuperset=0229000338"
         \o " NotSquareSupersetEqual=022E3 NotSubset=02282020D2 NotSubsetEqual=02288 NotSucceeds=02281"
         \o " NotSucceedsEqual=02AB000338 NotSucceedsSlantEqual=022E1 NotSucceedsTilde=0227F00338"
         \o " NotSuperset=02283020D2 NotSupersetEqual=02289 NotTilde=02241 NotTildeEqual=02244"
         \o " NotTildeFullEqual=02247 NotTildeTilde=02249 NotVerticalBar=02224 Nscr=1D4A9 Ntilde=000D1"
         \o " Nu=0039D "
    [] initial = "O" ->
         " OElig=00152 Oacute=000D3 Ocirc=000D4 Ocy=0041E Odblac=00150 Ofr=1D512 Ograve=000D2 Omacr=0014C"
         \o " Omega=003A9 Omicron=0039F Oopf=1D546 OpenCurlyDoubleQuote=0201C OpenCurlyQuote=02018 Or=02A54"
         \o " Oscr=1D4AA Oslash=000D8 Otilde=000D5 Otimes=02A37 Ouml=000D6 OverBar=0203E OverBrace=023DE"
         \o " OverBracket=023B4 OverParenthesis=023DC "
    [] initial = "P" ->
         " PartialD=02202 Pcy=0041F Pfr=1D513 Phi=003A6 Pi=003A0 PlusMinus=000B1 Poincareplane=0210C"
         \o " Popf=02119 Pr=02ABB Precedes=0227A PrecedesEqual=02AAF PrecedesSlantEqual=0227C"
         \o " PrecedesTilde=0227E Prime=02033 Product=0220F Proportion=02237 Proportional=0221D Pscr=1D4AB"
         \o " Psi=003A8 "
    [] initial = "Q" ->
         " QUOT=00022 Qfr=1D514 Qopf=0211A Qscr=1D4AC "
    [] initial = "R" ->
         " RBarr=02910 REG=000AE Racute=00154 Rang=027EB Rarr=021A0 Rarrtl=02916 Rcaron=00158 Rcedil=00156"
         \o " Rcy=00420 Re=0211C ReverseElement=0220B ReverseEquilibrium=021CB ReverseUpEquilibrium=0296F"
         \o " Rfr=0211C Rho=003A1 RightAngleBracket=027E9 RightArrow=02192 RightArrowBar=021E5"
         \o " RightArrowLeftArrow=021C4 RightCeiling=02309 RightDoubleBracket=027E7 RightDownTeeVector=0295D"
         \o " RightDownVector=021C2 RightDownVectorBar=02955 RightFloor=0230B RightTee=022A2"
         \o " RightTeeArrow=021A6 RightTeeVector=0295B RightTriangle=022B3 RightTriangleBar=029D0"
         \o " RightTriangleEqual=022B5 RightUpDownVector=0294F RightUpTeeVector=0295C RightUpVector=021BE"
         \o " RightUpVectorBar=02954 RightVector=021C0 RightVectorBar=02953 Rightarrow=021D2 Ropf=0211D"
         \o " RoundImplies=02970 Rrightarrow=021DB Rscr=0211B Rsh=021B1 RuleDelayed=029F4 "
    [] initial = "S" ->
         " SHCHcy=00429 SHcy=00428 SOFTcy=0042C Sacute=0015A Sc=02ABC Scaron=00160 Scedil=0015E"
         \o " Scirc=0015C Scy=00421 Sfr=1D516 ShortDownArrow=02193 ShortLeftArrow=02190 ShortRightArrow=02192"
         \o " ShortUpArrow=02191 Sigma=003A3 SmallCircle=02218 Sopf=1D54A Sqrt=0221A Square=025A1"
         \o " SquareIntersection=02293 SquareSubset=0228F SquareSubsetEqual=02291 SquareSuperset=02290"
         \o " SquareSupersetEqual=02292 SquareUnion=02294 Sscr=1D4AE Star=022C6 Sub=022D0 Subset=022D0"
         \o " SubsetEqual=02286 Succeeds=0227B SucceedsEqual=02AB0 SucceedsSlantEqual=0227D"
         \o " SucceedsTilde=0227F SuchThat=0220B Sum=02211 Sup=022D1 Superset=02283 SupersetEqual=02287"
         \o " Supset=022D1 "
    [] initial = "T" ->
         " THORN=000DE TRADE=02122 TSHcy=0040B TScy=00426 Tab=00009 Tau=003A4 Tcaron=00164 Tcedil=00162"
         \o " Tcy=00422 Tfr=1D517 Therefore=02234 Theta=00398 ThickSpace=0205F0200A ThinSpace=02009"
         \o " Tilde=0223C TildeEqual=02243 TildeFullEqual=02245 TildeTilde=02248 Topf=1D54B TripleDot=020DB"
         \o " Tscr=1D4AF Tstrok=00166 "
    [] initial = "U" ->
         " Uacute=000DA Uarr=0219F Uarrocir=02949 Ubrcy=0040E Ubreve=0016C Ucirc=000DB Ucy=00423"
         \o " Udblac=00170 Ufr=1D518 Ugrave=000D9 Umacr=0016A UnderBar=0005F UnderBrace=023DF"
         \o " UnderBracket=023B5 UnderParenthesis=023DD Union=022C3 UnionPlus=0228E Uogon=00172 Uopf=1D54C"
         \o " UpArrow=02191 UpArrowBar=02912 UpArrowDownArrow=021C5 UpDownArrow=02195 UpEquilibrium=0296E"
         \o " UpTee=022A5 UpTeeArrow=021A5 Uparrow=021D1 Updownarrow=021D5 UpperLeftArrow=02196"
         \o " UpperRightArrow=02197 Upsi=003D2 Upsilon=003A5 Uring=0016E Uscr=1D4B0 Utilde=00168 Uuml=000DC "
    [] initial = "V" ->
         " VDash=022AB Vbar=02AEB Vcy=00412 Vdash=022A9 Vdashl=02AE6 Vee=022C1 Verbar=02016 Vert=02016"
         \o " VerticalBar=02223 VerticalLine=0007C VerticalSeparator=02758 VerticalTilde=02240"
         \o " VeryThinSpace=0200A Vfr=1D519 Vopf=1D54D Vscr=1D4B1 Vvdash=022AA "
    [] initial = "W" ->
         " Wcirc=00174 Wedge=022C0 Wfr=1D51A Wopf=1D54E Wscr=1D4B2 "
    [] initial = "X" ->
         " Xfr=1D51B Xi=0039E Xopf=1D54F Xscr=1D4B3 "
    [] initial = "Y" ->
         " YAcy=0042F YIcy=00407 YUcy=0042E Yacute=000DD Ycirc=00176 Ycy=0042B Yfr=1D51C Yopf=1D550"
         \o " Yscr=1D4B4 Yuml=00178 "
    [] initial = "Z" ->
         " ZHcy=00416 Zacute=00179 Zcaron=0017D Zcy=00417 Zdot=0017B ZeroWidthSpace=0200B Zeta=00396"
         \o " Zfr=02128 Zopf=02124 Zscr=1D4B5 "
    [] initial = "a" ->
         " aacute=000E1 abreve=00103 ac=0223E acE=0223E00333 acd=0223F acirc=000E2 acute=000B4 acy=00430"
         \o " aelig=000E6 af=02061 afr=1D51E agrave=000E0 alefsym=02135 aleph=02135 alpha=003B1 amacr=00101"
         \o " amalg=02A3F amp=00026 and=02227 andand=02A55 andd=02A5C andslope=02A58 andv=02A5A ang=02220"
         \o " ange=029A4 angle=02220 angmsd=02221 angmsdaa=029A8 angmsdab=029A9 angmsdac=029AA angmsdad=029AB"
         \o " angmsdae=029AC angmsdaf=029AD angmsdag=029AE angmsdah=029AF angrt=0221F angrtvb=022BE"
         \o " angrtvbd=0299D angsph=02222 angst=000C5 angzarr=0237C aogon=00105 aopf=1D552 ap=02248 apE=02A70"
         \o " apacir=02A6F ape=0224A apid=0224B apos=00027 approx=02248 approxeq=0224A aring=000E5 ascr=1D4B6"
         \o " ast=0002A asymp=02248 asympeq=0224D atilde=000E3 auml=000E4 awconint=02233 awint=02A11 "
    [] initial = "b" ->
         " bNot=02AED backcong=0224C backepsilon=003F6 backprime=02035 backsim=0223D backsimeq=022CD"
         \o " barvee=022BD barwed=02305 barwedge=02305 bbrk=023B5 bbrktbrk=023B6 bcong=0224C bcy=00431"
         \o " bdquo=0201E becaus=02235 because=02235 bemptyv=029B0 bepsi=003F6 bernou=0212C beta=003B2"
         \o " beth=02136 between=0226C bfr=1D51F bigcap=022C2 bigcirc=025EF bigcup=022C3 bigodot=02A00"
         \o " bigoplus=02A01 bigotimes=02A02 bigsqcup=02A06 bigstar=02605 bigtriangledown=025BD"
         \o " bigtriangleup=025B3 biguplus=02A04 bigvee=022C1 bigwedge=022C0 bkarow=0290D blacklozenge=029EB"
         \o " blacksquare=025AA blacktriangle=025B4 blacktriangledown=025BE blacktriangleleft=025C2"
         \o " blacktriangleright=025B8 blank=02423 blk12=02592 blk14=02591 blk34=02593 block=02588"
         \o " bne=0003D020E5 bnequiv=02261020E5 bnot=02310 bopf=1D553 bot=022A5 bottom=022A5 bowtie=022C8"
         \o " boxDL=02557 boxDR=02554 boxDl=02556 boxDr=02553 boxH=02550 boxHD=02566 boxHU=02569 boxHd=02564"
         \o " boxHu=02567 boxUL=0255D boxUR=0255A boxUl=0255C boxUr=02559 boxV=02551 boxVH=0256C boxVL=02563"
         \o " boxVR=02560 boxVh=0256B boxVl=02562 boxVr=0255F boxbox=029C9 boxdL=02555 boxdR=02552"
         \o " boxdl=02510 boxdr=0250C boxh=02500 boxhD=02565 boxhU=02568 boxhd=0252C boxhu=02534"
         \o " boxminus=0229F boxplus=0229E boxtimes=022A0 boxuL=0255B boxuR=02558 boxul=02518 boxur=02514"
         \o " boxv=02502 boxvH=0256A boxvL=02561 boxvR=0255E boxvh=0253C boxvl=02524 boxvr=0251C bprime=02035"
         \o " breve=002D8 brvbar=000A6 bscr=1D4B7 bsemi=0204F bsim=0223D bsime=022CD bsol=0005C bsolb=029C5"
         \o " bsolhsub=027C8 bull=02022 bullet=02022 bump=0224E bumpE=02AAE bumpe=0224F bumpeq=0224F "
    [] initial = "c" ->
         " cacute=00107 cap=02229 capand=02A44 capbrcup=02A49 capcap=02A4B capcup=02A47 capdot=02A40"
         \o " caps=022290FE00 caret=02041 caron=002C7 ccaps=02A4D ccaron=0010D ccedil=000E7 ccirc=00109"
         \o " ccups=02A4C ccupssm=02A50 cdot=0010B cedil=000B8 cemptyv=029B2 cent=000A2 centerdot=000B7"
         \o " cfr=1D520 chcy=00447 check=02713 checkmark=02713 chi=003C7 cir=025CB cirE=029C3 circ=002C6"
         \o " circeq=02257 circlearrowleft=021BA circlearrowright=021BB circledR=000AE circledS=024C8"
         \o " circledast=0229B circledcirc=0229A circleddash=0229D cire=02257 cirfnint=02A10 cirmid=02AEF"
         \o " cirscir=029C2 clubs=02663 clubsuit=02663 colon=0003A colone=02254 coloneq=02254 comma=0002C"
         \o " commat=00040 comp=02201 compfn=02218 complement=02201 complexes=02102 cong=02245 congdot=02A6D"
         \o " conint=0222E copf=1D554 coprod=02210 copy=000A9 copysr=02117 crarr=021B5 cross=02717 cscr=1D4B8"
         \o " csub=02ACF csube=02AD1 csup=02AD0 csupe=02AD2 ctdot=022EF cudarrl=02938 cudarrr=02935"
         \o " cuepr=022DE cuesc=022DF cularr=021B6 cularrp=0293D cup=0222A cupbrcap=02A48 cupcap=02A46"
         \o " cupcup=02A4A cupdot=0228D cupor=02A45 cups=0222A0FE00 curarr=021B7 curarrm=0293C"
         \o " curlyeqprec=022DE curlyeqsucc=022DF curlyvee=022CE curlywedge=022CF curren=000A4"
         \o " curvearrowleft=021B6 curvearrowright=021B7 cuvee=022CE cuwed=022CF cwconint=02232 cwint=02231"
         \o " cylcty=0232D "
    [] initial = "d" ->
         " dArr=021D3 dHar=02965 dagger=02020 daleth=02138 darr=02193 dash=02010 dashv=022A3 dbkarow=0290F"
         \o " dblac=002DD dcaron=0010F dcy=00434 dd=02146 ddagger=02021 ddarr=021CA ddotseq=02A77 deg=000B0"
         \o " delta=003B4 demptyv=029B1 dfisht=0297F dfr=1D521 dharl=021C3 dharr=021C2 diam=022C4"
         \o " diamond=022C4 diamondsuit=02666 diams=02666 die=000A8 digamma=003DD disin=022F2 div=000F7"
         \o " divide=000F7 divideontimes=022C7 divonx=022C7 djcy=00452 dlcorn=0231E dlcrop=0230D dollar=00024"
         \o " dopf=1D555 dot=002D9 doteq=02250 doteqdot=02251 dotminus=02238 dotplus=02214 dotsquare=022A1"
         \o " doublebarwedge=02306 downarrow=02193 downdownarrows=021CA downharpoonleft=021C3"
         \o " downharpoonright=021C2 drbkarow=02910 drcorn=0231F drcrop=0230C dscr=1D4B9 dscy=00455"
         \o " dsol=029F6 dstrok=00111 dtdot=022F1 dtri=025BF dtrif=025BE duarr=021F5 duhar=0296F"
         \o " dwangle=029A6 dzcy=0045F dzigrarr=027FF "
    [] initial = "e" ->
         " eDDot=02A77 eDot=02251 eacute=000E9 easter=02A6E ecaron=0011B ecir=02256 ecirc=000EA"
         \o " ecolon=02255 ecy=0044D edot=00117 ee=02147 efDot=02252 efr=1D522 eg=02A9A egrave=000E8"
         \o " egs=02A96 egsdot=02A98 el=02A99 elinters=023E7 ell=02113 els=02A95 elsdot=02A97 emacr=00113"
         \o " empty=02205 emptyset=02205 emptyv=02205 emsp=02003 emsp13=02004 emsp14=02005 eng=0014B"
         \o " ensp=02002 eogon=00119 eopf=1D556 epar=022D5 eparsl=029E3 eplus=02A71 epsi=003B5 epsilon=003B5"
         \o " epsiv=003F5 eqcirc=02256 eqcolon=02255 eqsim=02242 eqslantgtr=02A96 eqslantless=02A95"
         \o " equals=0003D equest=0225F equiv=02261 equivDD=02A78 eqvparsl=029E5 erDot=02253 erarr=02971"
         \o " escr=0212F esdot=02250 esim=02242 eta=003B7 eth=000F0 euml=000EB euro=020AC excl=00021"
         \o " exist=02203 expectation=02130 exponentiale=02147 "
    [] initial = "f" ->
         " fallingdotseq=02252 fcy=00444 female=02640 ffilig=0FB03 fflig=0FB00 ffllig=0FB04 ffr=1D523"
         \o " filig=0FB01 fjlig=000660006A flat=0266D fllig=0FB02 fltns=025B1 fnof=00192 fopf=1D557"
         \o " forall=02200 fork=022D4 forkv=02AD9 fpartint=02A0D frac12=000BD frac13=02153 frac14=000BC"
         \o " frac15=02155 frac16=02159 frac18=0215B frac23=02154 frac25=02156 frac34=000BE frac35=02157"
         \o " frac38=0215C frac45=02158 frac56=0215A frac58=0215D frac78=0215E frasl=02044 frown=02322"
         \o " fscr=1D4BB "
    [] initial = "g" ->
         " gE=02267 gEl=02A8C gacute=001F5 gamma=003B3 gammad=003DD gap=02A86 gbreve=0011F gcirc=0011D"
         \o " gcy=00433 gdot=00121 ge=02265 gel=022DB geq=02265 geqq=02267 geqslant=02A7E ges=02A7E"
         \o " gescc=02AA9 gesdot=02A80 gesdoto=02A82 gesdotol=02A84 gesl=022DB0FE00 gesles=02A94 gfr=1D524"
         \o " gg=0226B ggg=022D9 gimel=02137 gjcy=00453 gl=02277 glE=02A92 gla=02AA5 glj=02AA4 gnE=02269"
         \o " gnap=02A8A gnapprox=02A8A gne=02A88 gneq=02A88 gneqq=02269 gnsim=022E7 gopf=1D558 grave=00060"
         \o " gscr=0210A gsim=02273 gsime=02A8E gsiml=02A90 gt=0003E gtcc=02AA7 gtcir=02A7A gtdot=022D7"
         \o " gtlPar=02995 gtquest=02A7C gtrapprox=02A86 gtrarr=02978 gtrdot=022D7 gtreqless=022DB"
         \o " gtreqqless=02A8C gtrless=02277 gtrsim=02273 gvertneqq=022690FE00 gvnE=022690FE00 "
    [] initial = "h" ->
         " hArr=021D4 hairsp=0200A half=000BD hamilt=0210B hardcy=0044A harr=02194 harrcir=02948"
         \o " harrw=021AD hbar=0210F hcirc=00125 hearts=02665 heartsuit=02665 hellip=02026 hercon=022B9"
         \o " hfr=1D525 hksearow=02925 hkswarow=02926 hoarr=021FF homtht=0223B hookleftarrow=021A9"
         \o " hookrightarrow=021AA hopf=1D559 horbar=02015 hscr=1D4BD hslash=0210F hstrok=00127 hybull=02043"
         \o " hyphen=02010 "
    [] initial = "i" ->
         " iacute=000ED ic=02063 icirc=000EE icy=00438 iecy=00435 iexcl=000A1 iff=021D4 ifr=1D526"
         \o " igrave=000EC ii=02148 iiiint=02A0C iiint=0222D iinfin=029DC iiota=02129 ijlig=00133 imacr=0012B"
         \o " image=02111 imagline=02110 imagpart=02111 imath=00131 imof=022B7 imped=001B5 in=02208"
         \o " incare=02105 infin=0221E infintie=029DD inodot=00131 int=0222B intcal=022BA integers=02124"
         \o " intercal=022BA intlarhk=02A17 intprod=02A3C iocy=00451 iogon=0012F iopf=1D55A iota=003B9"
         \o " iprod=02A3C iquest=000BF iscr=1D4BE isin=02208 isinE=022F9 isindot=022F5 isins=022F4"
         \o " isinsv=022F3 isinv=02208 it=02062 itilde=00129 iukcy=00456 iuml=000EF "
    [] initial = "j" ->
         " jcirc=00135 jcy=00439 jfr=1D527 jmath=00237 jopf=1D55B jscr=1D4BF jsercy=00458 jukcy=00454 "
    [] initial = "k" ->
         " kappa=003BA kappav=003F0 kcedil=00137 kcy=0043A kfr=1D528 kgreen=00138 khcy=00445 kjcy=0045C"
         \o " kopf=1D55C kscr=1D4C0 "
    [] initial = "l" ->
         " lAarr=021DA lArr=021D0 lAtail=0291B lBarr=0290E lE=02266 lEg=02A8B lHar=02962 lacute=0013A"
         \o " laemptyv=029B4 lagran=02112 lambda=003BB lang=027E8 langd=02991 langle=027E8 lap=02A85"
         \o " laquo=000AB larr=02190 larrb=021E4 larrbfs=0291F larrfs=0291D larrhk=021A9 larrlp=021AB"
         \o " larrpl=02939 larrsim=02973 larrtl=021A2 lat=02AAB latail=02919 late=02AAD lates=02AAD0FE00"
         \o " lbarr=0290C lbbrk=02772 lbrace=0007B lbrack=0005B lbrke=0298B lbrksld=0298F lbrkslu=0298D"
         \o " lcaron=0013E lcedil=0013C lceil=02308 lcub=0007B lcy=0043B ldca=02936 ldquo=0201C ldquor=0201E"
         \o " ldrdhar=02967 ldrushar=0294B ldsh=021B2 le=02264 leftarrow=02190 leftarrowtail=021A2"
         \o " leftharpoondown=021BD leftharpoonup=021BC leftleftarrows=021C7 leftrightarrow=02194"
         \o " leftrightarrows=021C6 leftrightharpoons=021CB leftrightsquigarrow=021AD leftthreetimes=022CB"
         \o " leg=022DA leq=02264 leqq=02266 leqslant=02A7D les=02A7D lescc=02AA8 lesdot=02A7F lesdoto=02A81"
         \o " lesdotor=02A83 lesg=022DA0FE00 lesges=02A93 lessapprox=02A85 lessdot=022D6 lesseqgtr=022DA"
         \o " lesseqqgtr=02A8B lessgtr=02276 lesssim=02272 lfisht=0297C lfloor=0230A lfr=1D529 lg=02276"
         \o " lgE=02A91 lhard=021BD lharu=021BC lharul=0296A lhblk=02584 ljcy=00459 ll=0226A llarr=021C7"
         \o " llcorner=0231E llhard=0296B lltri=025FA lmidot=00140 lmoust=023B0 lmoustache=023B0 lnE=02268"
         \o " lnap=02A89 lnapprox=02A89 lne=02A87 lneq=02A87 lneqq=02268 lnsim=022E6 loang=027EC loarr=021FD"
         \o " lobrk=027E6 longleftarrow=027F5 longleftrightarrow=027F7 longmapsto=027FC longrightarrow=027F6"
         \o " looparrowleft=021AB looparrowright=021AC lopar=02985 lopf=1D55D loplus=02A2D lotimes=02A34"
         \o " lowast=02217 lowbar=0005F loz=025CA lozenge=025CA lozf=029EB lpar=00028 lparlt=02993"
         \o " lrarr=021C6 lrcorner=0231F lrhar=021CB lrhard=0296D lrm=0200E lrtri=022BF lsaquo=02039"
         \o " lscr=1D4C1 lsh=021B0 lsim=02272 lsime=02A8D lsimg=02A8F lsqb=0005B lsquo=02018 lsquor=0201A"
         \o " lstrok=00142 lt=0003C ltcc=02AA6 ltcir=02A79 ltdot=022D6 lthree=022CB ltimes=022C9 ltlarr=02976"
         \o " ltquest=02A7B ltrPar=02996 ltri=025C3 ltrie=022B4 ltrif=025C2 lurdshar=0294A luruhar=02966"
         \o " lvertneqq=022680FE00 lvnE=022680FE00 "
    [] initial = "m" ->
         " mDDot=0223A macr=000AF male=02642 malt=02720 maltese=02720 map=021A6 mapsto=021A6"
         \o " mapstodown=021A7 mapstoleft=021A4 mapstoup=021A5 marker=025AE mcomma=02A29 mcy=0043C"
         \o " mdash=02014 measuredangle=02221 mfr=1D52A mho=02127 micro=000B5 mid=02223 midast=0002A"
         \o " midcir=02AF0 middot=000B7 minus=02212 minusb=0229F minusd=02238 minusdu=02A2A mlcp=02ADB"
         \o " mldr=02026 mnplus=02213 models=022A7 mopf=1D55E mp=02213 mscr=1D4C2 mstpos=0223E mu=003BC"
         \o " multimap=022B8 mumap=022B8 "
    [] initial = "n" ->
         " nGg=022D900338 nGt=0226B020D2 nGtv=0226B00338 nLeftarrow=021CD nLeftrightarrow=021CE"
         \o " nLl=022D800338 nLt=0226A020D2 nLtv=0226A00338 nRightarrow=021CF nVDash=022AF nVdash=022AE"
         \o " nabla=02207 nacute=00144 nang=02220020D2 nap=02249 napE=02A7000338 napid=0224B00338 napos=00149"
         \o " napprox=02249 natur=0266E natural=0266E naturals=02115 nbsp=000A0 nbump=0224E00338"
         \o " nbumpe=0224F00338 ncap=02A43 ncaron=00148 ncedil=00146 ncong=02247 ncongdot=02A6D00338"
         \o " ncup=02A42 ncy=0043D ndash=02013 ne=02260 neArr=021D7 nearhk=02924 nearr=02197 nearrow=02197"
         \o " nedot=0225000338 nequiv=02262 nesear=02928 nesim=0224200338 nexist=02204 nexists=02204"
         \o " nfr=1D52B ngE=0226700338 nge=02271 ngeq=02271 ngeqq=0226700338 ngeqslant=02A7E00338"
         \o " nges=02A7E00338 ngsim=02275 ngt=0226F ngtr=0226F nhArr=021CE nharr=021AE nhpar=02AF2 ni=0220B"
         \o " nis=022FC nisd=022FA niv=0220B njcy=0045A nlArr=021CD nlE=0226600338 nlarr=0219A nldr=02025"
         \o " nle=02270 nleftarrow=0219A nleftrightarrow=021AE nleq=02270 nleqq=0226600338"
         \o " nleqslant=02A7D00338 nles=02A7D00338 nless=0226E nlsim=02274 nlt=0226E nltri=022EA nltrie=022EC"
         \o " nmid=02224 nopf=1D55F not=000AC notin=02209 notinE=022F900338 notindot=022F500338 notinva=02209"
         \o " notinvb=022F7 notinvc=022F6 notni=0220C notniva=0220C notnivb=022FE notnivc=022FD npar=02226"
         \o " nparallel=02226 nparsl=02AFD020E5 npart=0220200338 npolint=02A14 npr=02280 nprcue=022E0"
         \o " npre=02AAF00338 nprec=02280 npreceq=02AAF00338 nrArr=021CF nrarr=0219B nrarrc=0293300338"
         \o " nrarrw=0219D00338 nrightarrow=0219B nrtri=022EB nrtrie=022ED nsc=02281 nsccue=022E1"
         \o " nsce=02AB000338 nscr=1D4C3 nshortmid=02224 nshortparallel=02226 nsim=02241 nsime=02244"
         \o " nsimeq=02244 nsmid=02224 nspar=02226 nsqsube=022E2 nsqsupe=022E3 nsub=02284 nsubE=02AC500338"
         \o " nsube=02288 nsubset=02282020D2 nsubseteq=02288 nsubseteqq=02AC500338 nsucc=02281"
         \o " nsucceq=02AB000338 nsup=02285 nsupE=02AC600338 nsupe=02289 nsupset=02283020D2 nsupseteq=02289"
         \o " nsupseteqq=02AC600338 ntgl=02279 ntilde=000F1 ntlg=02278 ntriangleleft=022EA"
         \o " ntrianglelefteq=022EC ntriangleright=022EB ntrianglerighteq=022ED nu=003BD num=00023"
         \o " numero=02116 numsp=02007 nvDash=022AD nvHarr=02904 nvap=0224D020D2 nvdash=022AC nvge=02265020D2"
         \o " nvgt=0003E020D2 nvinfin=029DE nvlArr=02902 nvle=02264020D2 nvlt=0003C020D2 nvltrie=022B4020D2"
         \o " nvrArr=02903 nvrtrie=022B5020D2 nvsim=0223C020D2 nwArr=021D6 nwarhk=02923 nwarr=02196"
         \o " nwarrow=02196 nwnear=02927 "
    [] initial = "o" ->
         " oS=024C8 oacute=000F3 oast=0229B ocir=0229A ocirc=000F4 ocy=0043E odash=0229D odblac=00151"
         \o " odiv=02A38 odot=02299 odsold=029BC oelig=00153 ofcir=029BF ofr=1D52C ogon=002DB ograve=000F2"
         \o " ogt=029C1 ohbar=029B5 ohm=003A9 oint=0222E olarr=021BA olcir=029BE olcross=029BB oline=0203E"
         \o " olt=029C0 omacr=0014D omega=003C9 omicron=003BF omid=029B6 ominus=02296 oopf=1D560 opar=029B7"
         \o " operp=029B9 oplus=02295 or=02228 orarr=021BB ord=02A5D order=02134 orderof=02134 ordf=000AA"
         \o " ordm=000BA origof=022B6 oror=02A56 orslope=02A57 orv=02A5B oscr=02134 oslash=000F8 osol=02298"
         \o " otilde=000F5 otimes=02297 otimesas=02A36 ouml=000F6 ovbar=0233D "
    [] initial = "p" ->
         " par=02225 para=000B6 parallel=02225 parsim=02AF3 parsl=02AFD part=02202 pcy=0043F percnt=00025"
         \o " period=0002E permil=02030 perp=022A5 pertenk=02031 pfr=1D52D phi=003C6 phiv=003D5 phmmat=02133"
         \o " phone=0260E pi=003C0 pitchfork=022D4 piv=003D6 planck=0210F planckh=0210E plankv=0210F"
         \o " plus=0002B plusacir=02A23 plusb=0229E pluscir=02A22 plusdo=02214 plusdu=02A25 pluse=02A72"
         \o " plusmn=000B1 plussim=02A26 plustwo=02A27 pm=000B1 pointint=02A15 popf=1D561 pound=000A3"
         \o " pr=0227A prE=02AB3 prap=02AB7 prcue=0227C pre=02AAF prec=0227A precapprox=02AB7"
         \o " preccurlyeq=0227C preceq=02AAF precnapprox=02AB9 precneqq=02AB5 precnsim=022E8 precsim=0227E"
         \o " prime=02032 primes=02119 prnE=02AB5 prnap=02AB9 prnsim=022E8 prod=0220F profalar=0232E"
         \o " profline=02312 profsurf=02313 prop=0221D propto=0221D prsim=0227E prurel=022B0 pscr=1D4C5"
         \o " psi=003C8 puncsp=02008 "
    [] initial = "q" ->
         " qfr=1D52E qint=02A0C qopf=1D562 qprime=02057 qscr=1D4C6 quaternions=0210D quatint=02A16"
         \o " quest=0003F questeq=0225F quot=00022 "
    [] initial = "r" ->
         " rAarr=021DB rArr=021D2 rAtail=0291C rBarr=0290F rHar=02964 race=0223D00331 racute=00155"
         \o " radic=0221A raemptyv=029B3 rang=027E9 rangd=02992 range=029A5 rangle=027E9 raquo=000BB"
         \o " rarr=02192 rarrap=02975 rarrb=021E5 rarrbfs=02920 rarrc=02933 rarrfs=0291E rarrhk=021AA"
         \o " rarrlp=021AC rarrpl=02945 rarrsim=02974 rarrtl=021A3 rarrw=0219D ratail=0291A ratio=02236"
         \o " rationals=0211A rbarr=0290D rbbrk=02773 rbrace=0007D rbrack=0005D rbrke=0298C rbrksld=0298E"
         \o " rbrkslu=02990 rcaron=00159 rcedil=00157 rceil=02309 rcub=0007D rcy=00440 rdca=02937"
         \o " rdldhar=02969 rdquo=0201D rdquor=0201D rdsh=021B3 real=0211C realine=0211B realpart=0211C"
         \o " reals=0211D rect=025AD reg=000AE rfisht=0297D rfloor=0230B rfr=1D52F rhard=021C1 rharu=021C0"
         \o " rharul=0296C rho=003C1 rhov=003F1 rightarrow=02192 rightarrowtail=021A3 rightharpoondown=021C1"
         \o " rightharpoonup=021C0 rightleftarrows=021C4 rightleftharpoons=021CC rightrightarrows=021C9"
         \o " rightsquigarrow=0219D rightthreetimes=022CC ring=002DA risingdotseq=02253 rlarr=021C4"
         \o " rlhar=021CC rlm=0200F rmoust=023B1 rmoustache=023B1 rnmid=02AEE roang=027ED roarr=021FE"
         \o " robrk=027E7 ropar=02986 ropf=1D563 roplus=02A2E rotimes=02A35 rpar=00029 rpargt=02994"
         \o " rppolint=02A12 rrarr=021C9 rsaquo=0203A rscr=1D4C7 rsh=021B1 rsqb=0005D rsquo=02019"
         \o " rsquor=02019 rthree=022CC rtimes=022CA rtri=025B9 rtrie=022B5 rtrif=025B8 rtriltri=029CE"
         \o " ruluhar=02968 rx=0211E "
    [] initial = "s" ->
         " sacute=0015B sbquo=0201A sc=0227B scE=02AB4 scap=02AB8 scaron=00161 sccue=0227D sce=02AB0"
         \o " scedil=0015F scirc=0015D scnE=02AB6 scnap=02ABA scnsim=022E9 scpolint=02A13 scsim=0227F"
         \o " scy=00441 sdot=022C5 sdotb=022A1 sdote=02A66 seArr=021D8 searhk=02925 searr=02198 searrow=02198"
         \o " sect=000A7 semi=0003B seswar=02929 setminus=02216 setmn=02216 sext=02736 sfr=1D530 sfrown=02322"
         \o " sharp=0266F shchcy=00449 shcy=00448 shortmid=02223 shortparallel=02225 shy=000AD sigma=003C3"
         \o " sigmaf=003C2 sigmav=003C2 sim=0223C simdot=02A6A sime=02243 simeq=02243 simg=02A9E simgE=02AA0"
         \o " siml=02A9D simlE=02A9F simne=02246 simplus=02A24 simrarr=02972 slarr=02190 smallsetminus=02216"
         \o " smashp=02A33 smeparsl=029E4 smid=02223 smile=02323 smt=02AAA smte=02AAC smtes=02AAC0FE00"
         \o " softcy=0044C sol=0002F solb=029C4 solbar=0233F sopf=1D564 spades=02660 spadesuit=02660"
         \o " spar=02225 sqcap=02293 sqcaps=022930FE00 sqcup=02294 sqcups=022940FE00 sqsub=0228F sqsube=02291"
         \o " sqsubset=0228F sqsubseteq=02291 sqsup=02290 sqsupe=02292 sqsupset=02290 sqsupseteq=02292"
         \o " squ=025A1 square=025A1 squarf=025AA squf=025AA srarr=02192 sscr=1D4C8 ssetmn=02216 ssmile=02323"
         \o " sstarf=022C6 star=02606 starf=02605 straightepsilon=003F5 straightphi=003D5 strns=000AF"
         \o " sub=02282 subE=02AC5 subdot=02ABD sube=02286 subedot=02AC3 submult=02AC1 subnE=02ACB"
         \o " subne=0228A subplus=02ABF subrarr=02979 subset=02282 subseteq=02286 subseteqq=02AC5"
         \o " subsetneq=0228A subsetneqq=02ACB subsim=02AC7 subsub=02AD5 subsup=02AD3 succ=0227B"
         \o " succapprox=02AB8 succcurlyeq=0227D succeq=02AB0 succnapprox=02ABA succneqq=02AB6 succnsim=022E9"
         \o " succsim=0227F sum=02211 sung=0266A sup=02283 sup1=000B9 sup2=000B2 sup3=000B3 supE=02AC6"
         \o " supdot=02ABE supdsub=02AD8 supe=02287 supedot=02AC4 suphsol=027C9 suphsub=02AD7 suplarr=0297B"
         \o " supmult=02AC2 supnE=02ACC supne=0228B supplus=02AC0 supset=02283 supseteq=02287 supseteqq=02AC6"
         \o " supsetneq=0228B supsetneqq=02ACC supsim=02AC8 supsub=02AD4 supsup=02AD6 swArr=021D9"
         \o " swarhk=02926 swarr=02199 swarrow=02199 swnwar=0292A szlig=000DF "
    [] initial = "t" ->
         " target=02316 tau=003C4 tbrk=023B4 tcaron=00165 tcedil=00163 tcy=00442 tdot=020DB telrec=02315"
         \o " tfr=1D531 there4=02234 therefore=02234 theta=003B8 thetasym=003D1 thetav=003D1"
         \o " thickapprox=02248 thicksim=0223C thinsp=02009 thkap=02248 thksim=0223C thorn=000FE tilde=002DC"
         \o " times=000D7 timesb=022A0 timesbar=02A31 timesd=02A30 tint=0222D toea=02928 top=022A4"
         \o " topbot=02336 topcir=02AF1 topf=1D565 topfork=02ADA tosa=02929 tprime=02034 trade=02122"
         \o " triangle=025B5 triangledown=025BF triangleleft=025C3 trianglelefteq=022B4 triangleq=0225C"
         \o " triangleright=025B9 trianglerighteq=022B5 tridot=025EC trie=0225C triminus=02A3A triplus=02A39"
         \o " trisb=029CD tritime=02A3B trpezium=023E2 tscr=1D4C9 tscy=00446 tshcy=0045B tstrok=00167"
         \o " twixt=0226C twoheadleftarrow=0219E twoheadrightarrow=021A0 "
    [] initial = "u" ->
         " uArr=021D1 uHar=02963 uacute=000FA uarr=02191 ubrcy=0045E ubreve=0016D ucirc=000FB ucy=00443"
         \o " udarr=021C5 udblac=00171 udhar=0296E ufisht=0297E ufr=1D532 ugrave=000F9 uharl=021BF"
         \o " uharr=021BE uhblk=02580 ulcorn=0231C ulcorner=0231C ulcrop=0230F ultri=025F8 umacr=0016B"
         \o " uml=000A8 uogon=00173 uopf=1D566 uparrow=02191 updownarrow=02195 upharpoonleft=021BF"
         \o " upharpoonright=021BE uplus=0228E upsi=003C5 upsih=003D2 upsilon=003C5 upuparrows=021C8"
         \o " urcorn=0231D urcorner=0231D urcrop=0230E uring=0016F urtri=025F9 uscr=1D4CA utdot=022F0"
         \o " utilde=00169 utri=025B5 utrif=025B4 uuarr=021C8 uuml=000FC uwangle=029A7 "
    [] initial = "v" ->
         " vArr=021D5 vBar=02AE8 vBarv=02AE9 vDash=022A8 vangrt=0299C varepsilon=003F5 varkappa=003F0"
         \o " varnothing=02205 varphi=003D5 varpi=003D6 varpropto=0221D varr=02195 varrho=003F1"
         \o " varsigma=003C2 varsubsetneq=0228A0FE00 varsubsetneqq=02ACB0FE00 varsupsetneq=0228B0FE00"
         \o " varsupsetneqq=02ACC0FE00 vartheta=003D1 vartriangleleft=022B2 vartriangleright=022B3 vcy=00432"
         \o " vdash=022A2 vee=02228 veebar=022BB veeeq=0225A vellip=022EE verbar=0007C vert=0007C vfr=1D533"
         \o " vltri=022B2 vnsub=02282020D2 vnsup=02283020D2 vopf=1D567 vprop=0221D vrtri=022B3 vscr=1D4CB"
         \o " vsubnE=02ACB0FE00 vsubne=0228A0FE00 vsupnE=02ACC0FE00 vsupne=0228B0FE00 vzigzag=0299A "
    [] initial = "w" ->
         " wcirc=00175 wedbar=02A5F wedge=02227 wedgeq=02259 weierp=02118 wfr=1D534 wopf=1D568 wp=02118"
         \o " wr=02240 wreath=02240 wscr=1D4CC "
    [] initial = "x" ->
         " xcap=022C2 xcirc=025EF xcup=022C3 xdtri=025BD xfr=1D535 xhArr=027FA xharr=027F7 xi=003BE"
         \o " xlArr=027F8 xlarr=027F5 xmap=027FC xnis=022FB xodot=02A00 xopf=1D569 xoplus=02A01 xotime=02A02"
         \o " xrArr=027F9 xrarr=027F6 xscr=1D4CD xsqcup=02A06 xuplus=02A04 xutri=025B3 xvee=022C1"
         \o " xwedge=022C0 "
    [] initial = "y" ->
         " yacute=000FD yacy=0044F ycirc=00177 ycy=0044B yen=000A5 yfr=1D536 yicy=00457 yopf=1D56A"
         \o " yscr=1D4CE yucy=0044E yuml=000FF "
    [] initial = "z" ->
         " zacute=0017A zcaron=0017E zcy=00437 zdot=0017C zeetrf=02128 zeta=003B6 zfr=1D537 zhcy=00436"
         \o " zigrarr=021DD zopf=1D56B zscr=1D4CF zwj=0200D zwnj=0200C "
    [] OTHER -> " "

\* he's decodeMapLegacy: the names that are decoded without their semicolon
\* too, with the characters decodeMap has for them; none of the names is the
\* start of another
decodeMapLegacy ==
  " AElig AMP Aacute Acirc Agrave Aring Atilde Auml COPY Ccedil ETH Eacute Ecirc Egrave Euml GT"
  \o " Iacute Icirc Igrave Iuml LT Ntilde Oacute Ocirc Ograve Oslash Otilde Ouml QUOT REG THORN Uacute"
  \o " Ucirc Ugrave Uuml Yacute aacute acirc acute aelig agrave amp aring atilde auml brvbar ccedil"
  \o " cedil cent copy curren deg divide eacute ecirc egrave eth euml frac12 frac14 frac34 gt iacute"
  \o " icirc iexcl igrave iquest iuml laquo lt macr micro middot nbsp not ntilde oacute ocirc ograve"
  \o " ordf ordm oslash otilde ouml para plusmn pound quot raquo reg sect shy sup1 sup2 sup3 szlig"
  \o " thorn times uacute ucirc ugrave uml uuml yacute yen yuml "

isLegacy(name) ==
  \E k \in 1..(Len(decodeMapLegacy) - Len(name) - 1) :
    SubSeq(decodeMapLegacy, k, k + Len(name) + 1) = " " \o name \o " "

\* decodeMap[name], <<>> for a name it does not hold
namedValue(name) == IF name = "" THEN <<>> ELSE lookup(decodeMap(SubSeq(name, 1, 1)), name)

\* what he's regexDecode matches at an ampersand that t follows, by its
\* alternatives in their order: a name and its semicolon; a legacy name
\* without one, and the letter, digit or = after it; &#digits with or without
\* semicolon; &#x or &#X and hexadecimal digits likewise; anything else
\* (&name of no reference, a bare &) stays.  take: how much of t the match
\* holds, put: what decode's callback returns for it
characterReference(t) ==
  LET run == prefixLen(t, Alnum)
      legacy == {n \in 1..run : isLegacy(str(SubSeq(t, 1, n)))}
      numeric == t # <<>> /\ t[1] = "#"
      dec == IF numeric THEN prefixLen(SubSeq(t, 2, Len(t)), DecDigits) ELSE 0
      hexadecimal == numeric /\ Len(t) >= 2 /\ t[2] \in {"x", "X"}
      hexa == IF hexadecimal THEN prefixLen(SubSeq(t, 3, Len(t)), HexSet) ELSE 0
      semicolon(n) == IF n < Len(t) /\ t[n + 1] = ";" THEN 1 ELSE 0
  IN  IF run > 0 /\ semicolon(run) = 1 /\ namedValue(str(SubSeq(t, 1, run))) # <<>>
        THEN [take |-> run + 1, put |-> namedValue(str(SubSeq(t, 1, run)))]
      ELSE IF legacy # {}
        THEN LET n == first(legacy)
                 next == IF n < Len(t) /\ t[n + 1] \in Alnum \cup {"="}
                           THEN <<t[n + 1]>> ELSE <<>>
             IN  [take |-> n + Len(next),
                  put |-> namedValue(str(SubSeq(t, 1, n))) \o next]
      ELSE IF dec > 0
        THEN [take |-> 1 + dec + semicolon(1 + dec),
              put |-> <<codePointToSymbol(parseInt(SubSeq(t, 2, 1 + dec), 10))>>]
      ELSE IF hexa > 0
        THEN [take |-> 2 + hexa + semicolon(2 + hexa),
              put |-> <<codePointToSymbol(parseInt(SubSeq(t, 3, 2 + hexa), 16))>>]
      ELSE [take |-> 0, put |-> <<"&">>]

\* he.decode(s), not strict and not in an attribute value: every match of
\* regexDecode, leftmost first
RECURSIVE decode(_)
decode(s) ==
  IF \A k \in 1..Len(s) : s[k] # "&" THEN s
  ELSE LET k == first({n \in 1..Len(s) : s[n] = "&"})
           ref == characterReference(SubSeq(s, k + 1, Len(s)))
       IN  SubSeq(s, 1, k - 1) \o ref.put \o decode(SubSeq(s, k + 1 + ref.take, Len(s)))

(***************************************************************************)
(* DOM nodes                                                               *)
(***************************************************************************)
NoAttrs == [class |-> <<>>, href |-> <<>>, src |-> <<>>, alt |-> <<>>,
            title |-> <<>>, dataLang |-> <<>>]

\* a text node of raw text s
TextNode(s) ==
  [nodeType |-> 3, tagName |-> "", rawText |-> s, attrs |-> NoAttrs, childNodes |-> <<>>]

ElementWith(tag, attrs, kids) ==
  [nodeType |-> 1, tagName |-> tag, rawText |-> <<>>, attrs |-> attrs, childNodes |-> kids]

\* the text getter of a text node
text(node) == decode(node.rawText)

Element(tag, kids) == ElementWith(tag, NoAttrs, kids)

\* the class tokens the code tests for
c_admonitionblock == <<"a","d","m","o","n","i","t","i","o","n","b","l","o","c","k">>
c_listingblock == <<"l","i","s","t","i","n","g","b","l","o","c","k">>
c_literalblock == <<"l","i","t","e","r","a","l","b","l","o","c","k">>
c_content == <<"c","o","n","t","e","n","t">>
c_icon == <<"i","c","o","n">>
c_doc == <<"d","o","c">>
c_article == <<"a","r","t","i","c","l","e">>
c_nav == <<"n","a","v">>
c_navbar == <<"n","a","v","b","a","r">>
c_toolbar == <<"t","o","o","l","b","a","r">>
c_anchor == <<"a","n","c","h","o","r">>
s_language == <<"l","a","n","g","u","a","g","e","-">>

\* classList.contains(token), and the class selector of that token
hasClass(node, token) ==
  node.nodeType = 1 /\ \E k \in 1..Len(node.attrs.class) : node.attrs.class[k] = token

hasTag(node, tags) == node.nodeType = 1 /\ node.tagName \in tags

\* the element descendants of a node list, in document order
RECURSIVE descendants(_, _)
descendants(kids, k) ==
  IF k > Len(kids) THEN <<>>
  ELSE (IF kids[k].nodeType = 1
          THEN <<kids[k]>> \o descendants(kids[k].childNodes, 1)
          ELSE <<>>)
       \o descendants(kids, k + 1)

\* the elements of a sequence that carry one of the tags
withTag(elems, tags) == SelectSeq(elems, LAMBDA e : hasTag(e, tags))

\* the elements of a sequence that carry the class
withClass(elems, token) == SelectSeq(elems, LAMBDA e : hasClass(e, token))

\* node.querySelectorAll('<tag>, <tag>'): descendants only, document order
querySelectorAllTag(node, tags) == withTag(descendants(node.childNodes, 1), tags)

\* node.querySelectorAll('.<token>')
querySelectorAllClass(node, token) == withClass(descendants(node.childNodes, 1), token)

\* node.querySelectorAll(':scope > li'): the li children of the node itself
scopeLi(node) == withTag(node.childNodes, {"li"})

(***************************************************************************)
(* HtmlToAsciiDocConverter: the parts that do not touch listDepth          *)
(***************************************************************************)
\* getTextContent without its recursion: the text children of the node only
getTextContentShallow(node) ==
  IF node.nodeType = 3 THEN text(node)
  ELSE join([k \in 1..Len(node.childNodes) |->
               IF node.childNodes[k].nodeType = 3 THEN text(node.childNodes[k]) ELSE <<>>],
            <<>>)

RECURSIVE getTextContent(_)
RECURSIVE textOfChildren(_, _)

\* getTextContent's map(...).join('') over node.childNodes
textOfChildren(kids, k) ==
  IF k > Len(kids) THEN <<>>
  ELSE (IF kids[k].nodeType = 3 THEN text(kids[k]) ELSE getTextContent(kids[k]))
       \o textOfChildren(kids, k + 1)

getTextContent(node) ==
  IF node.nodeType = 3 THEN text(node) ELSE textOfChildren(node.childNodes, 1)

\* where /language-(\w+)/ matches inside one class token
languageMatches(token) ==
  {p \in 1..Len(token) :
     /\ p + Len(s_language) <= Len(token)
     /\ SubSeq(token, p, p + Len(s_language) - 1) = s_language
     /\ IsWord(token[p + Len(s_language)])}

\* the longest prefix of s made of \w characters
RECURSIVE wordPrefix(_)
wordPrefix(s) ==
  IF s = <<>> \/ ~IsWord(Head(s)) THEN <<>> ELSE <<Head(s)>> \o wordPrefix(Tail(s))

\* match[1] of the leftmost match of /language-(\w+)/ in the class attribute,
\* <<>> when there is none (a match cannot span the white space between tokens)
RECURSIVE languageOfClass(_)
languageOfClass(tokens) ==
  IF tokens = <<>> THEN <<>>
  ELSE LET ps == languageMatches(Head(tokens))
       IN  IF ps = {} THEN languageOfClass(Tail(tokens))
           ELSE LET p == CHOOSE p \in ps : \A q \in ps : p <= q
                IN  wordPrefix(SubSeq(Head(tokens), p + Len(s_language), Len(Head(tokens))))

extractLanguage(codeNode) ==
  IF languageOfClass(codeNode.attrs.class) # <<>> THEN languageOfClass(codeNode.attrs.class)
  ELSE IF codeNode.attrs.dataLang # <<>> THEN codeNode.attrs.dataLang
  ELSE <<"t","e","x","t">>

fence == <<"-","-","-","-",NL>>
fenceEnd == <<NL,"-","-","-","-",NL,NL>>

\* case 'pre'
preBlock(node) ==
  LET codes == querySelectorAllTag(node, {"code"})
  IN  IF codes # <<>>
        THEN <<"[","s","o","u","r","c","e",",">> \o extractLanguage(codes[1]) \o <<"]",NL>>
             \o fence \o getTextContent(codes[1]) \o fenceEnd
        ELSE fence \o getTextContent(node) \o fenceEnd

\* case 'a'
link(node) ==
  LET href == node.attrs.href
      linkText == getTextContent(node)
  IN  IF href = linkText \/ linkText = <<>> THEN href
      ELSE href \o <<"[">> \o linkText \o <<"]">>

\* the listingblock / literalblock branch of case 'div'
listingBlock(node) ==
  LET contents == querySelectorAllClass(node, c_content)
  IN  fence \o getTextContent(IF contents # <<>> THEN contents[1] ELSE node) \o fenceEnd

tableOpen == <<"[","c","o","l","s","=","\"","*","\"","]",NL,"|","=","=","=",NL>>
tableClose == <<"|","=","=","=",NL,NL>>

\* the inner forEach of processTable over one row's cells
RECURSIVE tableCells(_, _)
tableCells(cells, k) ==
  IF k > Len(cells) THEN <<>>
  ELSE LET content == trim(getTextContent(cells[k]))
           prefix == IF cells[k].tagName = "th" THEN <<"|","*">> ELSE <<"|">>
       IN  prefix \o content \o <<NL>> \o tableCells(cells, k + 1)

\* the outer forEach of processTable over the rows
RECURSIVE tableRows(_, _)
tableRows(rows, k) ==
  IF k > Len(rows) THEN <<>>
  ELSE tableCells(querySelectorAllTag(rows[k], {"th", "td"}), 1) \o tableRows(rows, k + 1)

\* processTable without the early return of line 176
processTableUnguarded(node) ==
  tableOpen \o tableRows(querySelectorAllTag(node, {"tr"}), 1) \o tableClose

processTable(node) ==
  LET rows == querySelectorAllTag(node, {"tr"})
  IN  IF Len(rows) = 0 THEN <<>>
      ELSE tableOpen \o tableRows(rows, 1) \o tableClose

quoteOpen == <<"[","q","u","o","t","e","]",NL,"_","_","_","_",NL>>
quoteClose == <<NL,"_","_","_","_",NL,NL>>

\* the lines of a split that survive filter(line => line.trim())
RECURSIVE nonBlank(_)
nonBlank(lines) ==
  IF lines = <<>> THEN <<>>
  ELSE (IF trim(Head(lines)) # <<>> THEN <<Head(lines)>> ELSE <<>>) \o nonBlank(Tail(lines))

\* processBlockquote without the filter of line 195
processBlockquoteUnfiltered(content) ==
  quoteOpen \o join(split(content, NL), <<NL>>) \o quoteClose

\* processBlockquote once processChildren(node) has returned content
processBlockquote(content) ==
  LET lines == nonBlank(split(content, NL))
  IN  quoteOpen \o join(lines, <<NL>>) \o quoteClose

\* node.querySelectorAll('.icon i'): the selector is taken relative to node,
\* so these are the i elements below an element of class icon that is itself
\* below node, in document order; neither node nor its ancestors count as
\* that element.  kids: children of node or of an element below it;
\* under: an element of class icon lies between node and kids
RECURSIVE iconElements(_, _, _)
iconElements(kids, k, under) ==
  IF k > Len(kids) THEN <<>>
  ELSE (IF kids[k].nodeType = 1
          THEN (IF kids[k].tagName = "i" /\ under THEN <<kids[k]>> ELSE <<>>)
               \o iconElements(kids[k].childNodes, 1, under \/ hasClass(kids[k], c_icon))
          ELSE <<>>)
       \o iconElements(kids, k + 1, under)

NOTE == <<"N","O","T","E">>

\* admonitionType without the || 'NOTE' of line 206
admonitionTypeNoDefault(node) ==
  LET icons == iconElements(node.childNodes, 1, FALSE)
  IN  IF icons # <<>> THEN toUpperCase(icons[1].attrs.title) ELSE NOTE

\* processAdmonition, lines 201-207
admonitionType(node) ==
  LET icons == iconElements(node.childNodes, 1, FALSE)
  IN  IF icons # <<>>
        THEN (IF toUpperCase(icons[1].attrs.title) # <<>>
                THEN toUpperCase(icons[1].attrs.title) ELSE NOTE)
        ELSE NOTE

\* processAdmonition's contentDiv
contentDivs(node) == querySelectorAllClass(node, c_content)

admonitionRule == <<"=","=","=","=">>

\* processAdmonition once processNode(contentDiv) has returned content
processAdmonition(type, content) ==
  <<"[">> \o type \o <<"]",NL>> \o admonitionRule \o <<NL>> \o trim(content)
  \o <<NL>> \o admonitionRule \o <<NL,NL>>

\* case 'p' once processChildren(node) has returned pContent
paragraph(pContent) == IF pContent # <<>> THEN pContent \o <<NL,NL>> ELSE <<>>

\* one turn of processList's forEach: the line of an item whose processNode
\* returned content
listItem(prefix, content) == prefix \o <<" ">> \o trim(content) \o <<NL>>

HeadingLevel(tag) ==
  CASE tag = "h1" -> 1 [] tag = "h2" -> 2 [] tag = "h3" -> 3
    [] tag = "h4" -> 4 [] tag = "h5" -> 5 [] tag = "h6" -> 6 [] OTHER -> 0

\* case 'h1' .. 'h6'
heading(node) ==
  repeat(<<"=">>, HeadingLevel(node.tagName)) \o <<" ">> \o getTextContent(node) \o <<NL,NL>>

isAdmonition(node) == node.tagName = "div" /\ hasClass(node, c_admonitionblock)

isListing(node) ==
  /\ node.tagName = "div" /\ ~hasClass(node, c_admonitionblock)
  /\ (hasClass(node, c_listingblock) \/ hasClass(node, c_literalblock))

\* the branches of processNode that return without calling processNode again
returnsAtOnce(node) ==
  \/ node.nodeType = 3
  \/ HeadingLevel(node.tagName) > 0
  \/ node.tagName \in {"strong", "b", "em", "i", "code", "pre", "a", "table",
                       "br", "hr", "img"}
  \/ isListing(node)
  \/ isAdmonition(node) /\ contentDivs(node) = <<>>

\* what those branches return
valueAtOnce(node) ==
  IF node.nodeType = 3 THEN text(node)
  ELSE IF HeadingLevel(node.tagName) > 0 THEN heading(node)
  ELSE CASE node.tagName \in {"strong", "b"} -> <<"*">> \o getTextContent(node) \o <<"*">>
         [] node.tagName \in {"em", "i"} -> <<"_">> \o getTextContent(node) \o <<"_">>
         [] node.tagName = "code" -> <<Backquote>> \o getTextContent(node) \o <<Backquote>>
         [] node.tagName = "pre" -> preBlock(node)
         [] node.tagName = "a" -> link(node)
         [] node.tagName = "table" -> processTable(node)
         [] node.tagName = "br" -> <<" ","+",NL>>
         [] node.tagName = "hr" -> <<"'","'","'",NL,NL>>
         [] node.tagName = "img" ->
              <<"i","m","a","g","e",":",":">> \o node.attrs.src \o <<"[">>
              \o node.attrs.alt \o <<"]",NL,NL>>
         [] isListing(node) -> listingBlock(node)
         [] OTHER -> <<>>

\* the deepest nesting of the calls of getTextContent that getTextContent(node)
\* makes, itself included: it calls itself on every element child, and
\* reads the text of a text child without a call
RECURSIVE getTextContentCalls(_)
getTextContentCalls(node) ==
  LET below == {getTextContentCalls(node.childNodes[k]) :
                  k \in {n \in 1..Len(node.childNodes) : node.childNodes[n].nodeType = 1}}
  IN  IF below = {} THEN 1 ELSE 1 + (CHOOSE d \in below : \A e \in below : d >= e)

\* the same for a branch of processNode that returns without calling
\* processNode again: the deepest nesting of getTextContent calls it makes
callsAtOnce(node) ==
  IF node.nodeType = 3 THEN 0
  ELSE IF HeadingLevel(node.tagName) > 0
          \/ node.tagName \in {"strong", "b", "em", "i", "code", "a"}
    THEN getTextContentCalls(node)
  ELSE IF node.tagName = "pre"
    THEN LET codes == querySelectorAllTag(node, {"code"})
         IN  getTextContentCalls(IF codes # <<>> THEN codes[1] ELSE node)
  ELSE IF node.tagName = "table"
    THEN LET rows == querySelectorAllTag(node, {"tr"})
             cellsOf(r) == querySelectorAllTag(rows[r], {"th", "td"})
             cells == UNION {{getTextContentCalls(cellsOf(r)[c]) : c \in 1..Len(cellsOf(r))} :
                               r \in 1..Len(rows)}
         IN  IF cells = {} THEN 0 ELSE CHOOSE d \in cells : \A e \in cells : d >= e
  ELSE IF isListing(node)
    THEN LET contents == querySelectorAllClass(node, c_content)
         IN  getTextContentCalls(IF contents # <<>> THEN contents[1] ELSE node)
  ELSE 0

(***************************************************************************)
(* The driver's view of a document                                         *)
(***************************************************************************)
\* the rawText getter of node-html-parser: the raw text of the text nodes
\* below the node as it stands; a br element reads as a newline
RECURSIVE rawText(_)
RECURSIVE rawTextOfChildren(_, _)

rawTextOfChildren(kids, k) ==
  IF k > Len(kids) THEN <<>>
  ELSE rawText(kids[k]) \o rawTextOfChildren(kids, k + 1)

rawText(node) ==
  IF node.nodeType = 3 THEN node.rawText
  ELSE IF node.tagName = "br" THEN <<NL>>
  ELSE rawTextOfChildren(node.childNodes, 1)

\* the textContent getter: the raw text is put together first, then decoded
textContent(node) == decode(rawText(node))

\* root.querySelector('article.doc') || 'main' || '.article' || 'article';
\* <<>> stands for null
querySelectorMain(root) ==
  LET all == descendants(root.childNodes, 1)
      articleDoc == withClass(withTag(all, {"article"}), c_doc)
      main == withTag(all, {"main"})
      dotArticle == withClass(all, c_article)
      article == withTag(all, {"article"})
  IN  IF articleDoc # <<>> THEN <<articleDoc[1]>>
      ELSE IF main # <<>> THEN <<main[1]>>
      ELSE IF dotArticle # <<>> THEN <<dotArticle[1]>>
      ELSE IF article # <<>> THEN <<article[1]>>
      ELSE <<>>

\* 'nav, header, footer, .nav, .navbar, .toolbar'
isNavigation(node) ==
  \/ hasTag(node, {"nav", "header", "footer"})
  \/ hasClass(node, c_nav) \/ hasClass(node, c_navbar) \/ hasClass(node, c_toolbar)

\* 'a.anchor'
isAnchor(node) == hasTag(node, {"a"}) /\ hasClass(node, c_anchor)

\* the child list once every navigation element and anchor below it is removed
RECURSIVE removeElements(_, _)
removeElements(kids, k) ==
  IF k > Len(kids) THEN <<>>
  ELSE (IF isNavigation(kids[k]) \/ isAnchor(kids[k]) THEN <<>>
        ELSE IF kids[k].nodeType = 1
          THEN <<[kids[k] EXCEPT !.childNodes = removeElements(kids[k].childNodes, 1)]>>
          ELSE <<kids[k]>>)
       \o removeElements(kids, k + 1)

\* parse(mainContent.innerHTML): innerHTML writes the raw text of the text
\* nodes and the tags of the elements, and parse reads them back under a root
\* without a tag name.  Text nodes that the removals left side by side come
\* back as one text node of their raw texts put together, so that a
\* character reference the removed element stood in the middle of is decoded
\* from then on; an empty text node does not come back.  The raw text of a
\* document holds no <, so that no text put together reads as a tag
RECURSIVE parseInnerHTML(_, _)
parseInnerHTML(kids, k) ==
  IF k > Len(kids) THEN <<>>
  ELSE LET rest == parseInnerHTML(kids, k + 1)
       IN  IF kids[k].nodeType = 1
             THEN <<[kids[k] EXCEPT !.childNodes = parseInnerHTML(kids[k].childNodes, 1)]>>
                  \o rest
           ELSE IF kids[k].rawText = <<>> THEN rest
           ELSE IF rest # <<>> /\ rest[1].nodeType = 3
             THEN <<TextNode(kids[k].rawText \o rest[1].rawText)>> \o Tail(rest)
           ELSE <<kids[k]>> \o rest

\* the levels of the elements below a node list, in document order: those
\* of descendants(kids, k), the elements of kids being on the given level
RECURSIVE levels(_, _, _)
levels(kids, k, level) ==
  IF k > Len(kids) THEN <<>>
  ELSE (IF kids[k].nodeType = 1
          THEN <<level>> \o levels(kids[k].childNodes, 1, level + 1)
          ELSE <<>>)
       \o levels(kids, k + 1, level)

\* how many levels of nodes lie below a node list; a text node is a level
\* where leaves holds (innerHTML writes it with a call of its own), and none
\* where it does not (a query goes through the elements only)
RECURSIVE depthBelow(_, _, _)
depthBelow(kids, k, leaves) ==
  IF k > Len(kids) THEN 0
  ELSE LET here == IF kids[k].nodeType = 1
                     THEN 1 + depthBelow(kids[k].childNodes, 1, leaves)
                     ELSE IF leaves THEN 1 ELSE 0
           rest == depthBelow(kids, k + 1, leaves)
       IN  IF here >= rest THEN here ELSE rest

\* lines 47-50: the deepest nesting of calls the four querySelector calls on
\* root reach, one call a level: a selector that finds nothing has gone
\* through the whole document, the one that finds mainContent through the
\* elements up to it, in document order
searchNesting(root) ==
  LET all == descendants(root.childNodes, 1)
      lv == levels(root.childNodes, 1, 1)
      deepest(upto) == IF upto = 0 THEN 1
                       ELSE 1 + (CHOOSE d \in {lv[m] : m \in 1..upto} :
                                   \A m \in 1..upto : d >= lv[m])
      articleDoc == {m \in 1..Len(all) : hasTag(all[m], {"article"}) /\ hasClass(all[m], c_doc)}
  IN  IF articleDoc # {} THEN deepest(first(articleDoc)) ELSE deepest(Len(all))

\* lines 47-73: the deepest nesting of calls that node-html-parser reaches
\* before convert is called, one call a level: in the querySelector calls
\* of lines 47-50, in the querySelectorAll calls of lines 58 and 62, which
\* go through every element below mainContent, and in innerHTML (line 73),
\* which writes every node that the removals left; querySelector('h1') and
\* textContent (lines 67-69) stay within these
walksNesting(root) ==
  LET main == querySelectorMain(root)
      queries == 1 + depthBelow(main[1].childNodes, 1, FALSE)
      innerHTML == 1 + depthBelow(removeElements(main[1].childNodes, 1), 1, TRUE)
      search == searchNesting(root)
  IN  IF main = <<>> THEN search
      ELSE IF search >= queries /\ search >= innerHTML THEN search
      ELSE IF queries >= innerHTML THEN queries ELSE innerHTML

\* lines 57-63: the children of mainContent once the removals are done
keptContent(root) == removeElements(querySelectorMain(root)[1].childNodes, 1)

\* lines 66-70: the trimmed text of the first h1 of the content, '' without one
pageTitleOf(kept) ==
  LET h1s == withTag(descendants(kept, 1), {"h1"})
  IN  IF h1s # <<>> THEN trim(textContent(h1s[1])) ELSE <<>>

\* lines 76-83: the document header
titleStep(pageTitle, asciidoc) ==
  IF pageTitle # <<>>
    THEN LET lines == split(asciidoc, NL)
             body == IF startsWith(lines[1], <<"=", " ">>)
                       THEN join(Tail(lines), <<NL>>) ELSE asciidoc
         IN  <<"=", " ">> \o pageTitle \o <<NL>> \o body
    ELSE asciidoc

dotHtml == <<".","h","t","m","l">>
dotAdoc == <<".","a","d","o","c">>

\* lines 90-91
rewriteLinks(s) ==
  replaceAll(replaceAll(s, dotHtml \o <<"[">>, dotAdoc \o <<"[">>),
             dotHtml \o <<"#">>, dotAdoc \o <<"#">>)

\* lines 75-91: what is handed to writeFileSync
postProcess(pageTitle, asciidoc) ==
  rewriteLinks(collapseNewlines(titleStep(pageTitle, asciidoc)))

BATCH_SIZE == 500

(***************************************************************************)
(* State                                                                   *)
(***************************************************************************)
VARIABLES
  htmlFiles,       \* glob.sync's result: per file, whether reading and parsing
                   \* it succeeds, its parsed document, whether writing succeeds
  i,               \* the batch loop's offset (line 37)
  j,               \* the index of the for-of loop inside the batch (line 40)
  pc,              \* where generateAsciiDoc is: loop, convert, post, catch, done
  pageTitle,       \* line 66
  asciidoc,        \* line 73: what converter.convert returned
  listDepth,       \* this.listDepth of the one converter of line 21
  stack,           \* the calls of processNode in progress, innermost last
  ret,             \* the call of processNode that returned last
  processedCount,  \* line 30
  reads,           \* the files handed to readFileSync, in order
  writes,          \* the files written by writeFileSync, in order, with their text
  errors,          \* the files reported by console.error, in order
  doneCalls        \* how often done() was called

vars == <<htmlFiles, i, j, pc, pageTitle, asciidoc, listDepth, stack, ret,
          processedCount, reads, writes, errors, doneCalls>>

\* the nesting of calls that the JavaScript call stack holds in every run:
\* the calls of processNode and getTextContent, one level of the document
\* each, and those of node-html-parser, whose queries, innerHTML and
\* textContent go through the document one call a level as well
StackLimit == 9

\* how much deeper than StackLimit the calls can nest at most.  What a call
\* takes of the stack differs between processNode, getTextContent and the
\* functions of node-html-parser, and with what the engine has compiled by
\* then, so the nesting at which a call throws a RangeError is not the same
\* for them and not the same from run to run: between StackLimit and
\* StackMost a call either fits or throws
StackSlack == 4
StackMost == StackLimit + StackSlack

NoNode == TextNode(<<>>)
NoReturn == [op |-> "none", node |-> NoNode, value |-> <<>>, content |-> <<>>,
             aux |-> <<>>]

\* a call of processNode(node) that has not reached its switch yet
call(node) ==
  [op |-> "processNode", node |-> node, todo |-> <<>>, k |-> 1, acc |-> <<>>,
   aux |-> <<>>]

listMarker(node) == IF node.tagName = "ul" THEN <<"*">> ELSE <<".">>

\* processList, lines 160-164: the prefix, from listDepth after its increment
\* (depth is listDepth before it)
listPrefix(marker, depth) == repeat(marker, depth + 1)

\* the branch of processNode that node takes when it goes on to call
\* processNode: the nodes it will call it on, in order (todo), and what it
\* keeps meanwhile; depth is listDepth at the call
enter(node, depth) ==
  LET kids == [op |-> "processChildren", node |-> node, todo |-> node.childNodes,
               k |-> 1, acc |-> <<>>, aux |-> <<>>]
  IN  CASE node.tagName = "p" -> [kids EXCEPT !.op = "p"]
        [] node.tagName \in {"ul", "ol"} ->
             [kids EXCEPT !.op = "processList", !.todo = scopeLi(node),
                          !.aux = listPrefix(listMarker(node), depth)]
        [] node.tagName = "blockquote" -> [kids EXCEPT !.op = "processBlockquote"]
        [] isAdmonition(node) ->
             [kids EXCEPT !.op = "processAdmonition",
                          !.todo = <<contentDivs(node)[1]>>,
                          !.aux = admonitionType(node)]
        [] OTHER -> kids

\* what a frame holds after the call on todo[k] returned value
accumulate(frame, value) ==
  [frame EXCEPT !.k = @ + 1,
                !.acc = IF frame.op = "processList"
                          THEN @ \o listItem(frame.aux, value)
                          ELSE @ \o value]

\* what a frame returns once every call it makes has returned
leave(frame) ==
  CASE frame.op = "p" -> paragraph(frame.acc)
    [] frame.op = "processList" -> frame.acc \o <<NL>>
    [] frame.op = "processBlockquote" -> processBlockquote(frame.acc)
    [] frame.op = "processAdmonition" -> processAdmonition(frame.aux, frame.acc)
    [] OTHER -> frame.acc

\* listDepth++ of line 160
depthOnEntry(node, depth) == IF node.tagName \in {"ul", "ol"} THEN depth + 1 ELSE depth

\* listDepth-- of line 170
depthOnExit(frame, depth) == IF frame.op = "processList" THEN depth - 1 ELSE depth

top == stack[Len(stack)]
callers == SubSeq(stack, 1, Len(stack) - 1)

\* the nesting of calls that the converter reaches from where it is: the
\* calls of processNode in progress, in a branch that calls getTextContent
\* the calls of getTextContent on the node and below it, and one call more,
\* since every branch calls something from where it is: processNode on the
\* next node, or a function of the library or the language (toLowerCase in
\* line 32, the text getter, querySelectorAll in line 161 after listDepth++,
\* map, forEach, join, trim, split, filter)
nesting ==
  Len(stack) + 1
  + (IF top.op = "processNode" /\ returnsAtOnce(top.node)
       THEN callsAtOnce(top.node) ELSE 0)

\* the call stack can be full before the converter has made these calls
stackMayBeFull == nesting > StackLimit

\* the call stack is full before the converter has made these calls, in any
\* run
stackFull == nesting > StackMost

\* a call returns value to its caller; the outermost call returns it to
\* convert, and convert to the driver (line 73)
Deliver(value) ==
  IF callers = <<>>
    THEN /\ stack' = <<>>
         /\ asciidoc' = value
         /\ pc' = "post"
    ELSE /\ stack' = [callers EXCEPT ![Len(callers)] = accumulate(@, value)]
         /\ UNCHANGED <<asciidoc, pc>>

(***************************************************************************)
(* HtmlToAsciiDocConverter, one call or return at a time                   *)
(***************************************************************************)
\* processNode reaches its switch
ProcessNode ==
  /\ pc = "convert" /\ stack # <<>> /\ top.op = "processNode"
  /\ ~stackFull
  /\ IF returnsAtOnce(top.node)
       THEN /\ Deliver(valueAtOnce(top.node))
            /\ ret' = [op |-> "processNode", node |-> top.node,
                       value |-> valueAtOnce(top.node), content |-> <<>>,
                       aux |-> <<>>]
            /\ UNCHANGED listDepth
       ELSE /\ stack' = [stack EXCEPT ![Len(stack)] = enter(top.node, listDepth)]
            /\ listDepth' = depthOnEntry(top.node, listDepth)
            /\ UNCHANGED <<asciidoc, pc, ret>>
  /\ UNCHANGED <<htmlFiles, i, j, pageTitle, processedCount, reads, writes, errors,
                 doneCalls>>

\* processChildren's map, processList's forEach or processAdmonition calls
\* processNode on the next node
CallProcessNode ==
  /\ pc = "convert" /\ stack # <<>> /\ top.op # "processNode"
  /\ top.k <= Len(top.todo)
  /\ ~stackFull
  /\ stack' = Append(stack, call(top.todo[top.k]))
  /\ UNCHANGED <<htmlFiles, i, j, pc, pageTitle, asciidoc, listDepth, ret,
                 processedCount, reads, writes, errors, doneCalls>>

\* a call that the call stack has no room for, made by processNode, by
\* getTextContent or by one of the functions they call (processList after its
\* listDepth++ included): a RangeError unwinds every frame up to the driver's
\* catch; no frame has a finally, listDepth stays
RangeError ==
  /\ pc = "convert" /\ stack # <<>>
  /\ stackMayBeFull
  /\ stack' = <<>>
  /\ pc' = "catch"
  /\ UNCHANGED <<htmlFiles, i, j, pageTitle, asciidoc, listDepth, ret,
                 processedCount, reads, writes, errors, doneCalls>>

\* a branch that called processNode returns
Return ==
  /\ pc = "convert" /\ stack # <<>> /\ top.op # "processNode"
  /\ top.k > Len(top.todo)
  /\ listDepth' = depthOnExit(top, listDepth)
  /\ Deliver(leave(top))
  /\ ret' = [op |-> top.op, node |-> top.node, value |-> leave(top),
             content |-> top.acc, aux |-> top.aux]
  /\ UNCHANGED <<htmlFiles, i, j, pageTitle, processedCount, reads, writes, errors,
                 doneCalls>>

(***************************************************************************)
(* generateAsciiDoc                                                        *)
(***************************************************************************)
current == i + j + 1
htmlFile == htmlFiles[current]

\* batch = htmlFiles.slice(i, i + BATCH_SIZE)
batchLength ==
  IF i + BATCH_SIZE <= Len(htmlFiles) THEN BATCH_SIZE
  ELSE IF i < Len(htmlFiles) THEN Len(htmlFiles) - i ELSE 0

\* the for-of loop goes on to the next file of the batch, or the batch loop
\* to the next batch
NextFile ==
  /\ IF j + 1 < batchLength
       THEN /\ j' = j + 1 /\ UNCHANGED i
       ELSE /\ j' = 0 /\ i' = i + BATCH_SIZE
  /\ pc' = "loop"
  /\ pageTitle' = <<>>
  /\ asciidoc' = <<>>

\* lines 42-73, up to the call of processNode on the parse root.  The
\* queries and innerHTML go through the document before convert is called:
\* where the call stack has no room for them the RangeError is theirs, and
\* the catch is reached with the converter untouched
StartFile ==
  /\ pc = "loop" /\ i < Len(htmlFiles)
  /\ reads' = Append(reads, current)
  /\ IF ~htmlFile.readOk
       THEN /\ pc' = "catch"
            /\ UNCHANGED <<i, j, pageTitle, asciidoc, stack>>
       ELSE \/ /\ walksNesting(htmlFile.root) > StackLimit
               /\ pc' = "catch"
               /\ UNCHANGED <<i, j, pageTitle, asciidoc, stack>>
            \/ /\ walksNesting(htmlFile.root) <= StackMost
               /\ IF querySelectorMain(htmlFile.root) = <<>>
                    THEN /\ NextFile
                         /\ UNCHANGED stack
                    ELSE LET kept == keptContent(htmlFile.root)
                             root == Element("", parseInnerHTML(kept, 1))
                         IN  /\ pageTitle' = pageTitleOf(kept)
                             /\ stack' = <<call(root)>>
                             /\ pc' = "convert"
                             /\ UNCHANGED <<i, j, asciidoc>>
  /\ UNCHANGED <<htmlFiles, listDepth, ret, processedCount, writes, errors, doneCalls>>

\* lines 75-109
WriteFile ==
  /\ pc = "post"
  /\ IF htmlFile.writeOk
       THEN /\ writes' = Append(writes, [file |-> current,
                                         text |-> postProcess(pageTitle, asciidoc)])
            /\ processedCount' = processedCount + 1
            /\ NextFile
       ELSE /\ pc' = "catch"
            /\ UNCHANGED <<i, j, pageTitle, asciidoc, writes, processedCount>>
  /\ UNCHANGED <<htmlFiles, listDepth, stack, ret, reads, errors, doneCalls>>

\* a catch that ends the task instead of going on to the next file
CatchAborts ==
  /\ pc = "catch"
  /\ errors' = Append(errors, current)
  /\ pc' = "done"
  /\ UNCHANGED <<htmlFiles, i, j, pageTitle, asciidoc, listDepth, stack, ret,
                 processedCount, reads, writes, doneCalls>>

\* lines 110-112
Catch ==
  /\ pc = "catch"
  /\ errors' = Append(errors, current)
  /\ NextFile
  /\ UNCHANGED <<htmlFiles, listDepth, stack, ret, processedCount, reads, writes,
                 doneCalls>>

\* lines 116-118
Done ==
  /\ pc = "loop" /\ i >= Len(htmlFiles)
  /\ doneCalls' = doneCalls + 1
  /\ pc' = "done"
  /\ UNCHANGED <<htmlFiles, i, j, pageTitle, asciidoc, listDepth, stack, ret,
                 processedCount, reads, writes, errors>>

Next ==
  \/ StartFile \/ ProcessNode \/ CallProcessNode \/ RangeError \/ Return
  \/ WriteFile \/ Catch \/ Done

\* lines 21-34, for a glob result taken from a set of file lists
InitWith(fileLists) ==
  /\ htmlFiles \in fileLists
  /\ i = 0 /\ j = 0 /\ pc = "loop"
  /\ pageTitle = <<>> /\ asciidoc = <<>>
  /\ listDepth = 0 /\ stack = <<>> /\ ret = NoReturn
  /\ processedCount = 0 /\ reads = <<>> /\ writes = <<>> /\ errors = <<>>
  /\ doneCalls = 0

(***************************************************************************)
(* convert on a converter of its own: processNode with listDepth handed    *)
(* down as an argument instead of kept in the instance, and on a call      *)
(* stack that is never full                                                *)
(***************************************************************************)
RECURSIVE render(_, _)
RECURSIVE renderTodo(_, _, _)

renderTodo(frame, k, depth) ==
  IF k > Len(frame.todo) THEN frame
  ELSE renderTodo(accumulate(frame, render(frame.todo[k], depth)), k + 1, depth)

render(node, depth) ==
  IF returnsAtOnce(node) THEN valueAtOnce(node)
  ELSE leave(renderTodo(enter(node, depth), 1, depthOnEntry(node, depth)))

\* what the driver writes for a document converted alone, on a new converter
writtenAlone(file) ==
  LET kept == keptContent(file.root)
  IN  postProcess(pageTitleOf(kept), render(Element("", parseInnerHTML(kept, 1)), 0))

(***************************************************************************)
(* The documents and file lists the model is run on                        *)
(***************************************************************************)
MaxFiles == 3      \* files in a glob result
MaxNest == 2       \* lists inside lists
MaxItems == 2      \* items of a list
MaxInline == 3     \* inline elements inside inline elements
MaxRows == 2       \* rows of a table
MaxCells == 2      \* cells of a row
MaxKids == 3       \* children of a blockquote
MaxBlocks == 3     \* blocks of a page

SeqsOf(S, lo, hi) == UNION {[1..m -> S] : m \in lo..hi}

classed(token) == [NoAttrs EXCEPT !.class = <<token>>]

\* a page as Antora lays it out: the content sits in article.doc
Page(kids) == Element("", <<Element("body", <<ElementWith("article", classed(c_doc), kids)>>)>>)

File(root) == [readOk |-> TRUE, root |-> root, writeOk |-> TRUE]

RECURSIVE nest(_, _)
nest(n, node) == IF n = 0 THEN node ELSE Element("div", <<nest(n - 1, node)>>)

\* a list item whose content is nested deeper than the call stack holds in
\* any run
DeepPage ==
  Page(<<Element("ul", <<Element("li", <<nest(StackMost, TextNode(<<"x">>))>>)>>)>>)

\* a list item whose content is nested as deep as the call stack holds at
\* most: innerHTML gets through it in some run, processNode in none
DeepItemPage ==
  Page(<<Element("ul", <<Element("li", <<nest(StackMost - 4, TextNode(<<"x">>))>>)>>)>>)

\* a list item whose bold text is nested deeper than the call stack holds in
\* every run, and no deeper than it holds in some
DeepTextPage ==
  Page(<<Element("ul", <<Element("li",
           <<Element("b", <<nest(StackLimit - 4, TextNode(<<"x">>))>>)>>)>>)>>)

\* the same for a list without items, which no list encloses
DeepListPage == Page(<<nest(StackLimit - 1, Element("ul", <<>>))>>)

PlainPage == Page(<<Element("ul", <<Element("li", <<TextNode(<<"x">>)>>)>>)>>)

\* a page none of the four selectors of lines 47-50 finds content in
BarePage == Element("", <<Element("body", <<Element("div", <<TextNode(<<"x">>)>>)>>)>>)

BatchFiles ==
  { File(PlainPage), File(DeepPage), File(DeepTextPage), File(BarePage),
    [File(PlainPage) EXCEPT !.readOk = FALSE],
    [File(PlainPage) EXCEPT !.writeOk = FALSE] }

BatchLists == SeqsOf(BatchFiles, 0, MaxFiles)

\* ul and ol nested up to n deep
RECURSIVE Lists(_)
Lists(n) ==
  LET leaf == TextNode(IF n = MaxNest THEN <<"A">> ELSE <<"B">>)
      items == {Element("li", <<leaf>>)}
               \cup (IF n <= 1 THEN {}
                     ELSE {Element("li", <<leaf, l>>) : l \in Lists(n - 1)})
  IN  {Element(m, its) : m \in {"ul", "ol"}, its \in SeqsOf(items, 1, MaxItems)}

ListPages ==
  {Page(<<l>>) : l \in Lists(MaxNest)}
  \cup {DeepPage, DeepItemPage, DeepTextPage, DeepListPage}

ListLists == BatchLists \cup SeqsOf({File(pg) : pg \in ListPages}, 1, 2)

\* strong, b, em, i and code nested up to n deep
RECURSIVE Inlines(_)
Inlines(n) ==
  LET leaf == TextNode(<<"x">>)
      tags == {"strong", "b", "em", "i", "code"}
  IN  {Element(t, <<leaf>>) : t \in tags}
      \cup (IF n <= 1 THEN {}
            ELSE {Element(t, kids) : t \in tags,
                    kids \in UNION {{<<c>>, <<leaf, c>>} : c \in Inlines(n - 1)}})

\* inline elements over character references: one whole, one in two
\* text nodes
ReferenceInlines ==
  { Element("code", <<TextNode(<<"&","l","t",";","x","&","n","b","s","p",";">>)>>),
    Element("b", <<TextNode(<<"&","a","m">>), Element("i", <<TextNode(<<"p",";">>)>>)>>) }

InlineLists ==
  BatchLists
  \cup {<<File(Page(<<Element("p", <<e>>)>>))>> : e \in Inlines(MaxInline) \cup ReferenceInlines}

\* tables without rows and with rows; a cell holds text, with white space
\* around it, or a small table of its own
Tables ==
  LET td == Element("td", <<TextNode(<<"D">>)>>)
      th == Element("th", <<TextNode(<<" ", "H", "&","n","b","s","p",";", NL>>)>>)
      inner == Element("table", <<Element("tr", <<td>>)>>)
      cells == {td, th, Element("td", <<TextNode(<<"N">>), inner>>)}
      rows == {Element("tr", cs) : cs \in SeqsOf(cells, 1, MaxCells)}
      more == SeqsOf({Element("tr", <<td>>), Element("tr", <<th>>)}, 0, MaxRows - 1)
  IN  {Element("table", <<>>), Element("table", <<TextNode(<<NL>>)>>)}
      \cup {Element("table", <<r>> \o rs) : r \in rows, rs \in more}
      \cup {Element("table", <<Element("tbody", <<r>>)>>) : r \in rows}

TableLists == BatchLists \cup {<<File(Page(<<t>>))>> : t \in Tables}

\* blockquotes over text with and without line breaks, paragraphs and br
Blockquotes ==
  LET kids == {TextNode(<<"q">>), TextNode(<<NL>>),
               TextNode(<<" ", NL, "r", NL, "&","n","b","s","p",";", NL, NL, "s">>),
               Element("p", <<TextNode(<<"t">>)>>), Element("p", <<>>), Element("br", <<>>)}
  IN  {Element("blockquote", ks) : ks \in SeqsOf(kids, 0, MaxKids)}

QuoteLists == BatchLists \cup {<<File(Page(<<b>>))>> : b \in Blockquotes}

\* admonition blocks: with and without an icon, a title, a content element;
\* the class icon also on the block itself and on an element around it
Admonitions ==
  LET titled(t) == ElementWith("i", [NoAttrs EXCEPT !.title = t], <<>>)
      titles == {<<>>, <<"T","i","p">>, <<"W","a","r","n","i","n","g">>, <<"n","o","t","e","2">>,
                 <<"g","r","o","U+00DF">>}
      icons == {<<>>, <<ElementWith("td", classed(c_icon), <<>>)>>}
               \cup {<<ElementWith("td", classed(c_icon), <<titled(t)>>)>> : t \in titles}
               \cup {<<titled(<<"T","i","p">>)>>}
      contents == {<<>>,
                   <<ElementWith("td", classed(c_content),
                       <<TextNode(<<" ", "&","n","b","s","p",";", "c", NL>>)>>)>>,
                   <<ElementWith("div", classed(c_content),
                       <<Element("p", <<TextNode(<<"c">>)>>), TextNode(<<NL>>)>>)>>,
                   <<ElementWith("td", classed(c_content), <<>>)>>}
      blocks == {ElementWith("div", classed(c_admonitionblock), ic \o co)
                   : ic \in icons, co \in contents}
               \cup {ElementWith("div", classed(c_admonitionblock),
                       <<Element("table", <<Element("tr", ic \o co)>>)>>)
                       : ic \in icons, co \in contents}
               \cup {ElementWith("div", [NoAttrs EXCEPT !.class = <<c_admonitionblock, c_icon>>],
                       <<titled(<<"o","u","t">>)>> \o co) : co \in contents}
  IN  blocks \cup {ElementWith("div", classed(c_icon), <<b>>) : b \in blocks}

AdmonitionLists == BatchLists \cup {<<File(Page(<<a>>))>> : a \in Admonitions}

\* pages of headings, paragraphs, rules, links and the white space between;
\* one heading holds an anchor in the middle of a character reference
Blocks ==
  { Element("h1", <<TextNode(<<"T">>)>>),
    Element("h1", <<TextNode(<<"U","&","a","m">>), ElementWith("a", classed(c_anchor), <<>>),
                    TextNode(<<"p",";">>)>>),
    Element("p", <<TextNode(<<"a">>)>>),
    Element("hr", <<>>),
    TextNode(<<NL>>),
    TextNode(<<NL, NL>>),
    ElementWith("a", [NoAttrs EXCEPT !.href = <<"u">> \o dotHtml], <<TextNode(<<"l">>)>>),
    ElementWith("a", [NoAttrs EXCEPT !.href = <<"u">> \o dotHtml \o <<"#", "s">>], <<>>) }

TitleLists == BatchLists \cup {<<File(Page(bs))>> : bs \in SeqsOf(Blocks, 0, MaxBlocks)}

Spec == InitWith(BatchLists) /\ [][Next]_vars

\* gulp runs the task to its end: weak fairness of Next. Some action is enabled
\* in every state but the one after done(), so ENABLED <<Next>>_vars is
\* pc # "done", and WF_vars(Next) is written out with it
FairSpec == Spec /\ ([]<>(pc = "done") \/ []<><<Next>>_vars)

ListSpec == InitWith(ListLists) /\ [][Next]_vars
InlineSpec == InitWith(InlineLists) /\ [][Next]_vars
TableSpec == InitWith(TableLists) /\ [][Next]_vars
QuoteSpec == InitWith(QuoteLists) /\ [][Next]_vars
AdmonitionSpec == InitWith(AdmonitionLists) /\ [][Next]_vars
TitleSpec == InitWith(TitleLists) /\ [][Next]_vars

(***************************************************************************)
(* Properties                                                              *)
(***************************************************************************)
\* the lines of s that hold something other than white space
contentLines(s) ==
  SelectSeq(split(s, NL), LAMBDA line : \E k \in 1..Len(line) : ~IsSpace(line[k]))

\* a marker prefix: the marker once or more, then a space
startsWithMarker(line) ==
  \E m \in {"*", "."} : \E n \in 1..Len(line) :
    /\ \A k \in 1..n : line[k] = m
    /\ n < Len(line) /\ line[n + 1] = " "

\* C1: a list's output holds one line for every li of the list and of the
\* lists nested in its items, and each of these lines starts with a marker
\* prefix: a nested item is on a line of its own (* A, then ** B), it is not
\* appended to the line of the item that holds it
C1_EveryItemOnItsOwnLine ==
  ret.op = "processList" =>
    LET lines == contentLines(ret.value)
    IN  /\ Len(lines) = Len(querySelectorAllTag(ret.node, {"li"}))
        /\ \A k \in 1..Len(lines) : startsWithMarker(lines[k])

\* the calls of processList in progress among the first n frames of the stack
listFrames(n) == Cardinality({q \in 1..n : stack[q].op = "processList"})

\* C2: listDepth is never negative; during a conversion it is the number of
\* processList calls in progress (every call that returned has restored it),
\* so it is 0 when convert starts and when it has returned, and the prefix
\* of a list is its marker repeated once more than lists enclose it
C2_DepthPairedAndZeroBetweenConversions ==
  /\ listDepth >= 0
  /\ pc = "convert" => listDepth = listFrames(Len(stack))
  /\ pc = "post" => listDepth = 0
  /\ \A q \in 1..Len(stack) :
       stack[q].op = "processList" =>
         stack[q].aux = repeat(listMarker(stack[q].node), listFrames(q))

\* C3: every file written holds what converting that document alone on a
\* new converter gives, whatever was converted before it on the converter
\* of line 21
C3_SameAsOnNewConverter ==
  \A k \in 1..Len(writes) : writes[k].text = writtenAlone(htmlFiles[writes[k].file])

InlineTags == {"strong", "b", "em", "i", "code"}

markerOf(tag) ==
  IF tag \in {"strong", "b"} THEN "*" ELSE IF tag \in {"em", "i"} THEN "_" ELSE Backquote

inlineReturned == ret.op = "processNode" /\ hasTag(ret.node, InlineTags)

\* the texts of the text nodes below a node list, in document order
RECURSIVE textNodes(_, _)
textNodes(kids, k) ==
  IF k > Len(kids) THEN <<>>
  ELSE (IF kids[k].nodeType = 3 THEN <<text(kids[k])>> ELSE textNodes(kids[k].childNodes, 1))
       \o textNodes(kids, k + 1)

\* C4 as claimed: strong/b, em/i and code put their marker around the
\* rendering of their children, so the markers of the inline elements inside
\* them are kept: <strong><em>x</em></strong> gives *_x_*
C4_NestedMarkersCompose ==
  inlineReturned =>
    ret.value = <<markerOf(ret.node.tagName)>>
                \o render(Element("", ret.node.childNodes), 0)
                \o <<markerOf(ret.node.tagName)>>

\* C4 as amended: strong/b, em/i and code put their marker around the plain
\* text of their subtree; the markers of the inline elements inside them are
\* dropped, <strong><em>x</em></strong> gives *x*
C4_OuterMarkerOnly ==
  inlineReturned =>
    /\ ret.value = <<markerOf(ret.node.tagName)>>
                   \o join(textNodes(ret.node.childNodes, 1), <<>>)
                   \o <<markerOf(ret.node.tagName)>>
    /\ \A k \in 2..(Len(ret.value) - 1) : ret.value[k] \notin {"*", "_", Backquote}

C4_Witness ==
  /\ inlineReturned
  /\ ret.node.tagName = "strong"
  /\ ret.node.childNodes = <<TextNode(<<"x">>), Element("em", <<TextNode(<<"x">>)>>)>>
  /\ ret.value = <<"*", "x", "x", "*">>

tableReturned == ret.op = "processNode" /\ hasTag(ret.node, {"table"})

cellLine(cell) ==
  (IF cell.tagName = "th" THEN <<"|", "*">> ELSE <<"|">>)
  \o trim(join(textNodes(cell.childNodes, 1), <<>>)) \o <<NL>>

\* C5 as claimed: header, one line for each th/td of the table, each cell
\* once and in document order, footer; also for a table without rows and for
\* a table with a table in a cell
C5_EachCellOnce ==
  tableReturned =>
    LET cells == querySelectorAllTag(ret.node, {"th", "td"})
    IN  ret.value = tableOpen
                    \o join([c \in 1..Len(cells) |-> cellLine(cells[c])], <<>>)
                    \o tableClose

\* C5 as amended: a table without a tr below it gives the empty string; any
\* other gives header, then for every tr below the table (those of nested
\* tables too) in document order and every th/td below that tr in document
\* order one line, then footer: a cell of a nested table is put out once for
\* each tr around it
C5_EachCellOncePerRow ==
  tableReturned =>
    LET rows == querySelectorAllTag(ret.node, {"tr"})
        cellsOf(r) == querySelectorAllTag(rows[r], {"th", "td"})
        rowLines(r) == join([c \in 1..Len(cellsOf(r)) |-> cellLine(cellsOf(r)[c])], <<>>)
    IN  ret.value = IF rows = <<>> THEN <<>>
                    ELSE tableOpen \o join([r \in 1..Len(rows) |-> rowLines(r)], <<>>)
                         \o tableClose

C5_Witness ==
  /\ tableReturned
  /\ Len(querySelectorAllTag(ret.node, {"table"})) > 0
  /\ Len(querySelectorAllTag(ret.node, {"tr"})) >= 3
  /\ Len(contentLines(ret.value)) > Len(querySelectorAllTag(ret.node, {"th", "td"})) + 3

\* C6: a file written for a page with a title starts with the line
\* = <title>, and the heading line of the h1 the title was read from is
\* replaced by it wherever the h1 sits: the text holds as many lines
\* = <title> as the content has h1 elements
C6_TitleReplacesHeading ==
  \A k \in 1..Len(writes) :
    LET kept == keptContent(htmlFiles[writes[k].file].root)
        titleLine == <<"=", " ">> \o pageTitleOf(kept)
        lines == split(writes[k].text, NL)
    IN  pageTitleOf(kept) # <<>> =>
          /\ lines[1] = titleLine
          /\ Cardinality({n \in 1..Len(lines) : lines[n] = titleLine})
               = Len(withTag(descendants(kept, 1), {"h1"}))

written == {writes[k].file : k \in 1..Len(writes)}
reported == {errors[k] : k \in 1..Len(errors)}
hasContent(f) == querySelectorMain(htmlFiles[f].root) # <<>>

\* what the task has done once it has called done()
Finished ==
  /\ pc = "done" /\ doneCalls = 1
  /\ reads = [k \in 1..Len(htmlFiles) |-> k]
  /\ processedCount = Len(writes)
  /\ Cardinality(written) = Len(writes)
  /\ \A f \in 1..Len(htmlFiles) :
       /\ f \in written =>
            htmlFiles[f].readOk /\ hasContent(f) /\ htmlFiles[f].writeOk /\ f \notin reported
       /\ f \notin written =>
            ~htmlFiles[f].readOk \/ ~hasContent(f) \/ ~htmlFiles[f].writeOk \/ f \in reported

\* C7: whatever files throw, every file is attempted in order, done() is
\* called, once, and processedCount ends as the number of files written: the
\* files that were read, had content and did not throw
C7_BatchNeverAborted == [](doneCalls <= 1) /\ <>[]Finished

C7_Witness ==
  /\ Finished
  /\ \E e \in reported : \E w \in written : e < w
  /\ \E f \in 1..Len(htmlFiles) : ~hasContent(f)

\* the lengths of the runs of newlines in s, in order
newlineRuns(s) ==
  LET starts == {k \in 1..Len(s) : s[k] = NL /\ (k = 1 \/ s[k - 1] # NL)}
      nth(n) == CHOOSE k \in starts : Cardinality({m \in starts : m < k}) = n - 1
      ends(k) == {e \in k..Len(s) : \A m \in k..e : s[m] = NL}
  IN  [n \in 1..Cardinality(starts) |-> Cardinality(ends(nth(n)))]

cappedAt2(runs) == [k \in 1..Len(runs) |-> IF runs[k] >= 3 THEN 2 ELSE runs[k]]

\* C8: no file written holds three newlines in a row; the text handed to
\* writeFileSync has the runs of newlines of the text after the title step,
\* each run of three or more cut to two
C8_NoThreeNewlines ==
  /\ \A k \in 1..Len(writes) : \A r \in 1..Len(newlineRuns(writes[k].text)) :
       newlineRuns(writes[k].text)[r] <= 2
  /\ pc = "post" =>
       newlineRuns(postProcess(pageTitle, asciidoc))
         = cappedAt2(newlineRuns(titleStep(pageTitle, asciidoc)))

C8_Witness ==
  /\ pc = "post"
  /\ pageTitle # <<>>
  /\ \E r \in 1..Len(newlineRuns(titleStep(pageTitle, asciidoc))) :
       newlineRuns(titleStep(pageTitle, asciidoc))[r] >= 4
  /\ postProcess(pageTitle, asciidoc) # titleStep(pageTitle, asciidoc)
  /\ \E k \in 1..Len(asciidoc) : startsWith(SubSeq(asciidoc, k, Len(asciidoc)), dotHtml)

quoteReturned == ret.op = "processBlockquote"

quoteLine == <<"[","q","u","o","t","e","]">>
quoteRule == <<"_","_","_","_">>

\* C9 as claimed: [quote], ____, the non-blank lines of the rendered
\* children, ____, a blank line; with no non-blank line nothing stands
\* between the two ____
C9_NoBlankLineInQuote ==
  quoteReturned =>
    split(ret.value, NL)
      = <<quoteLine, quoteRule>> \o contentLines(ret.content) \o <<quoteRule, <<>>, <<>>>>

\* C9 as amended: the same, but with no non-blank line one empty line
\* stands between the two ____
C9_BlankLineOnlyInEmptyQuote ==
  quoteReturned =>
    split(ret.value, NL)
      = <<quoteLine, quoteRule>>
        \o (IF contentLines(ret.content) = <<>> THEN << <<>> >> ELSE contentLines(ret.content))
        \o <<quoteRule, <<>>, <<>>>>

C9_Witness ==
  /\ quoteReturned
  /\ Len(contentLines(ret.content)) >= 2
  /\ Len(split(ret.content, NL)) > Len(contentLines(ret.content)) + 1

admonitionReturned ==
  /\ ret.op \in {"processNode", "processAdmonition"}
  /\ ret.node.nodeType = 1 /\ isAdmonition(ret.node)

\* C10: an admonition block without an element of class content below it
\* gives the empty string whatever its icon; any other gives [LABEL], ====,
\* the trimmed rendering of that element, ====, a blank line, where LABEL is
\* the upper-cased title of the icon element, NOTE without an icon element or
\* without a title, and never empty
C10_AdmonitionBlock ==
  admonitionReturned =>
    LET contents == querySelectorAllClass(ret.node, c_content)
        icons == iconElements(ret.node.childNodes, 1, FALSE)
        label == IF icons = <<>> \/ icons[1].attrs.title = <<>>
                   THEN NOTE ELSE toUpperCase(icons[1].attrs.title)
    IN  IF contents = <<>> THEN ret.value = <<>>
        ELSE /\ label # <<>>
             /\ ret.value = <<"[">> \o label \o <<"]", NL, "=", "=", "=", "=", NL>>
                            \o trim(render(contents[1], 0))
                            \o <<NL, "=", "=", "=", "=", NL, NL>>

C10_Witness ==
  /\ admonitionReturned
  /\ startsWith(ret.value, <<"[", "W", "A", "R", "N", "I", "N", "G", "]", NL>>)
  /\ Len(ret.content) > Len(trim(ret.content))

====
